---- MODULE Spec2Model ----
(***************************************************************************)
(* A model of the Immix space of mmtk-core (src/policy/immix/immixspace.rs) *)
(* and of the tracing work packets (src/scheduler/gc_work.rs).              *)
(*                                                                          *)
(* The heap is an array of lines; a block is LINES consecutive lines and an *)
(* object reference is the address (global line index) of the line the      *)
(* object starts in.  GC workers execute the trace functions one shared     *)
(* memory access at a time, so that every interleaving of the atomics the   *)
(* code uses is explored.                                                   *)
(***************************************************************************)
EXTENDS Integers, Sequences, FiniteSets, TLC

(***************************************************************************)
(* Bounds of the model.                                                     *)
(***************************************************************************)
\* Blocks of the space.
NumBlocks == 4
\* Lines per block (Block::LINES, scaled down).
LINES == 8
\* Calls the workers make, in total, during one trace phase.
MaxCalls == 3
\* The largest defrag copy reserve, in blocks.
MaxReserve == 1
\* Blocks per chunk (Chunk::BYTES / Block::BYTES, scaled down).
BlocksPerChunk == 2
\* Collections prepared in one behaviour.
MaxGCs == 2
\* Collections of one behaviour of the whole life cycle.
MaxCycles == 3
\* Collections of one behaviour of the short life cycle.
ShortCycles == 2
\* Blocks in use beyond which the mutators wait for a collection.
MaxMutatorBlocks == 1
\* The largest number of holes recorded for a block.
MaxHoles == 1
\* ProcessEdgesWork::CAPACITY (EDGES_WORK_BUFFER_SIZE): the nodes a queue
\* holds when it is full.
CAPACITY == 2
\* Calls of process_weak_refs in one collection: the last one returns false.
MaxRounds == 3

(***************************************************************************)
(* Program constants.                                                       *)
(***************************************************************************)
\* ImmixSpace::UNMARKED_STATE / MARKED_STATE
UNMARKED_STATE == 0
MARKED_STATE == 1
\* Line::RESET_MARK_STATE / Line::MAX_MARK_STATE (scaled down from 127)
RESET_MARK_STATE == 1
MAX_MARK_STATE == 2
\* Trace kinds
TRACE_KIND_FAST == 0
TRACE_KIND_DEFRAG == 1
TRACE_KIND_TRANSITIVE_PIN == 2
\* Build-time modes (defaults of the crate)
BLOCK_ONLY == FALSE
MARK_LINE_AT_SCAN_TIME == FALSE
OBJECT_PINNING == TRUE
DEFRAG_EVERY_BLOCK == FALSE
\* ImmixSpaceArgs::never_move_objects
NEVER_MOVE_OBJECTS == FALSE

Workers == {"w1", "w2"}
Blocks == 0 .. (NumBlocks - 1)
Addrs == 0 .. (NumBlocks * LINES - 1)
NoAddr == 0 - 1
LineStates == 0 .. MAX_MARK_STATE
TraceKinds == {TRACE_KIND_FAST, TRACE_KIND_DEFRAG, TRACE_KIND_TRANSITIVE_PIN}

\* Block::containing(object), Line::block()
BlockOf(a) == a \div LINES
\* Line::get_index_within_block()
LineIndex(a) == a % LINES
\* Block::start() as a line address
BlockStart(b) == b * LINES
BlockLines(b) == BlockStart(b) .. (BlockStart(b) + LINES - 1)
\* Block::chunk(), and the blocks and addresses of a chunk
ChunkOf(b) == b \div BlocksPerChunk
Chunks == {ChunkOf(b) : b \in Blocks}
ChunkBlocks(c) == {b \in Blocks : ChunkOf(b) = c}
ChunkAddrs(c) == {a \in Addrs : ChunkOf(BlockOf(a)) = c}
\* The blocks the mutators allocated into before the collection, and the
\* objects in them (one at the start of each block).
MutBlocks == {0, 1}
OrigObjs == {BlockStart(b) : b \in MutBlocks}

\* BlockState
Unallocated == [tag |-> "Unallocated", unavailable_lines |-> 0]
Unmarked == [tag |-> "Unmarked", unavailable_lines |-> 0]
Marked == [tag |-> "Marked", unavailable_lines |-> 0]
Reusable(n) == [tag |-> "Reusable", unavailable_lines |-> n]
BlockStates == {Unallocated, Unmarked, Marked} \cup {Reusable(n) : n \in 1 .. LINES}

VARIABLES
    mark,               \* per-object mark bit (LOCAL_MARK_BIT_SPEC, on the side)
    fwdBits,            \* per-object forwarding bits
    fwdPtr,             \* per-object forwarding pointer
    pinned,             \* per-object pinning bit
    blockState,         \* Block::MARK_TABLE
    defragSource,       \* Block::DEFRAG_STATE_TABLE: is_defrag_source()
    holes,              \* Block::DEFRAG_STATE_TABLE: get_holes()
    lineMark,           \* Line::MARK_TABLE
    line_mark_state,    \* ImmixSpace::line_mark_state
    line_unavail_state, \* ImmixSpace::line_unavail_state
    lines_consumed,     \* ImmixSpace::lines_consumed
    in_defrag,          \* Defrag::in_defrag()
    defragAvail,        \* Defrag: clean blocks left in the copy reserve
    defragExhausted,    \* Defrag::space_exhausted()
    chunkAllocated,     \* ImmixSpace::chunk_map: is the chunk allocated
    wk,                 \* per-worker position and locals of the running call
    nodes,              \* per-worker object queue (VectorObjectQueue)
    copyCursor,         \* per-worker copy allocator: next free line
    known,              \* references held in roots and slots
    nurseryGC,          \* the current collection is a nursery collection
    dpeKind,            \* KIND of the plan's DefaultProcessEdges
    closureOpen,        \* the Closure bucket is open
    done,               \* per-worker history of finished calls
    copies,             \* per-object number of copies made of it
    failed,             \* debug assertions that failed
    holeStart,          \* argument of the last hole search
    holeRes,            \* result of the last hole search
    scanned,            \* per-object number of times do_work_common scanned it
    postScanned,        \* per-object number of post_scan_object calls
    field,              \* the reference field of each object
    rootSlot,           \* the root slots of the mutators
    buckets,            \* the work packets of each stage
    stage,              \* the stage whose bucket is open
    pkt,                \* the packet each worker executes
    epilogueCounter,    \* FlushPageResource::counter
    flushes,            \* calls of flush_page_resource since the last release
    gcCount,            \* collections prepared so far
    vmRoots,            \* the roots the VM reports, what they reach, the
                        \* objects the VM scans by node-enqueuing, the
                        \* referents of its weak references, and its mutators
    reusable_blocks,    \* ImmixSpace::reusable_blocks (ReusableBlockPool)
    defrag_spill_threshold, \* Defrag::defrag_spill_threshold
    lastAlloc,          \* the last call of get_clean_block / get_reusable_block
    never_move_objects, \* ImmixSpaceArgs::never_move_objects
    sentinel,           \* the sentinel packet of the VMRefClosure bucket
    weakRounds,         \* what each call of process_weak_refs returned
    gc_status,          \* the GC status of the global state
    scanned_stacks      \* GlobalState::scanned_stacks

heapVars == <<mark, fwdBits, fwdPtr, pinned, blockState, defragSource, holes, lineMark>>
spaceVars == <<line_mark_state, line_unavail_state, lines_consumed, in_defrag,
               defragAvail, defragExhausted, chunkAllocated>>
workerVars == <<wk, nodes, copyCursor>>
gcVars == <<known, nurseryGC, dpeKind, closureOpen>>
ghostVars == <<done, copies, failed>>
holeVars == <<holeStart, holeRes>>
graphVars == <<field, rootSlot>>
poolVars == <<reusable_blocks, defrag_spill_threshold, lastAlloc>>
schedVars == <<buckets, stage, pkt, epilogueCounter, flushes, gcCount, vmRoots, poolVars>>
weakVars == <<sentinel, weakRounds>>
statusVars == <<gc_status, scanned_stacks>>
mmtkVars == <<never_move_objects, weakVars, statusVars>>
vars == <<heapVars, spaceVars, workerVars, gcVars, ghostVars, holeVars, scanned, postScanned,
          graphVars, schedVars, mmtkVars>>

\* A worker that runs no call.
IdleCall == [pc |-> "idle", entry |-> "none", fn |-> "none", obj |-> NoAddr,
             kind |-> TRACE_KIND_FAST, nursery |-> FALSE, mark_state |-> MARKED_STATE,
             status |-> "NOT", old_value |-> 0, am |-> FALSE, new_object |-> NoAddr,
             ret |-> NoAddr, won |-> FALSE, copied |-> FALSE, inplace |-> FALSE,
             enq |-> 0, src_defrag |-> FALSE, gc |-> 0, late |-> FALSE]

NoHole == <<NoAddr, NoAddr>>

\* The stages of a collection that the model runs, in the scheduler's order.
StageOrder == <<"Unconstrained", "Prepare", "PinningRootsTrace", "TPinningClosure", "Closure",
                "VMRefClosure", "Release", "Final">>
Stages == {StageOrder[i] : i \in 1 .. Len(StageOrder)}

\* The root slots of the mutators.
RootIds == {1}

\* A work packet: its type, the ProcessEdgesWork types it is generic in, its
\* slots or objects, the bucket of the work it creates, whether its slots are
\* roots, the position of the worker that executes it, the objects a scan
\* postponed to its tracer, and the mutator whose stack it scans.
Packet(type, r2ope, pe, slots, objs, bucket) ==
    [type |-> type, r2ope |-> r2ope, pe |-> pe, slots |-> slots, objs |-> objs,
     bucket |-> bucket, roots |-> FALSE, i |-> 1, chunk |-> NoAddr,
     defrag_threshold |-> NoAddr, scan_later |-> <<>>, mutator |-> 0]

\* A packet that works on one chunk.
ChunkPacket(type, chunk, defrag_threshold, bucket) ==
    [Packet(type, "none", "none", <<>>, <<>>, bucket)
       EXCEPT !.chunk = chunk, !.defrag_threshold = defrag_threshold]

\* A worker that executes no packet.
NoPacket == Packet("none", "none", "none", <<>>, <<>>, "Final")

\* A slot: a root slot, or the reference field of an object.
RootSlotAt(r) == [root |-> TRUE, at |-> r]
FieldSlotOf(o) == [root |-> FALSE, at |-> o]

\* A VM that has no mutator and reports no roots.
NoRoots == [pinning |-> {}, tpinning |-> {}, reach |-> {}, treach |-> {},
            node_scan |-> {}, weak |-> {}, mutators |-> <<>>]

\* No call of get_clean_block or get_reusable_block was made yet.  A call
\* records its arguments, the block it returned (NoAddr for None), the state
\* that block was in before init, the blocks it popped and skipped, and the
\* number of the call.
NoAlloc == [fn |-> "none", copy |-> FALSE, block |-> NoAddr, before |-> Unallocated,
            skipped |-> {}, n |-> 0]



(***************************************************************************)
(* Collaborators of the space: page resource, Block, Line, Defrag.          *)
(***************************************************************************)
FreeBlocks == {b \in Blocks : blockState[b] = Unallocated}

\* PageResource::acquire(tls, Block::PAGES): the address of a free block, or
\* zero (NoAddr) when the heap has none.
Acquire == IF FreeBlocks = {} THEN NoAddr
           ELSE CHOOSE b \in FreeBlocks : \A c \in FreeBlocks : b <= c

\* Block::init(copy): Marked if copy, else Unmarked; zero holes; not a defrag
\* source.
BlockInitState(copy) == IF copy THEN Marked ELSE Unmarked

\* Defrag::notify_new_clean_block(copy): a copy block is taken from the
\* reserve; taking the last one exhausts it.
NotifyNewCleanBlock(copy) ==
    IF copy
    THEN /\ defragAvail' = IF defragAvail <= 1 THEN 0 ELSE defragAvail - 1
         /\ defragExhausted' = (defragExhausted \/ defragAvail <= 1)
    ELSE UNCHANGED <<defragAvail, defragExhausted>>

\* Line::mark_lines_for_object(object, state): the lines the object overlaps
\* (objects of the model fit in the line they start in).
ObjectLines(object) == {object}
MarkLinesForObject(table, object, state) ==
    [l \in Addrs |-> IF l \in ObjectLines(object) THEN state ELSE table[l]]

\* ImmixSpace::mark_lines
MarkLines(object) == lineMark' = MarkLinesForObject(lineMark, object, line_mark_state)

\* ImmixSpace::is_marked
IsMarked(object) == mark[object] = MARKED_STATE

\* ImmixSpace::is_pinned
IsPinned(object) == IF OBJECT_PINNING THEN pinned[object] ELSE FALSE

\* A get_clean_block that does not tell the chunk map about the block.
GetCleanBlockInitLeavingChunkMap(b, copy) ==
    /\ NotifyNewCleanBlock(copy)
    /\ blockState' = [blockState EXCEPT ![b] = BlockInitState(copy)]
    /\ defragSource' = [defragSource EXCEPT ![b] = FALSE]
    /\ holes' = [holes EXCEPT ![b] = 0]
    /\ chunkAllocated' = chunkAllocated
    /\ lines_consumed' = lines_consumed + LINES

\* ImmixSpace::get_clean_block(tls, copy), once acquire returned block b.
GetCleanBlockInit(b, copy) ==
    /\ NotifyNewCleanBlock(copy)
    /\ blockState' = [blockState EXCEPT ![b] = BlockInitState(copy)]
    /\ defragSource' = [defragSource EXCEPT ![b] = FALSE]
    /\ holes' = [holes EXCEPT ![b] = 0]
    /\ chunkAllocated' = [chunkAllocated EXCEPT ![ChunkOf(b)] = TRUE]
    /\ lines_consumed' = lines_consumed + LINES

(***************************************************************************)
(* ImmixSpace::attempt_mark, one atomic access per step.                    *)
(***************************************************************************)
\* Where the caller of attempt_mark continues with its result.
AfterAttemptMark(c, result) ==
    CASE c.fn = "attempt_mark" -> [c EXCEPT !.pc = "ret", !.am = result]
      [] c.fn = "twm" ->
            IF result THEN [c EXCEPT !.pc = "twm_marked", !.am = TRUE]
            ELSE [c EXCEPT !.pc = "ret", !.am = FALSE, !.ret = c.obj]
      [] OTHER -> [c EXCEPT !.pc = "ip_clear", !.am = result]

\* A load that never takes the early return.
AttemptMarkLoadNoCheck(w) ==
    /\ wk[w].pc = "am_load"
    /\ wk' = [wk EXCEPT ![w].pc = "am_cas", ![w].old_value = mark[wk[w].obj]]
    /\ UNCHANGED <<mmtkVars, heapVars, spaceVars, nodes, copyCursor, gcVars, ghostVars, holeVars, scanned, postScanned,
                   graphVars, schedVars>>

\* load_atomic; return false when the bit already equals mark_state.
AttemptMarkLoad(w) ==
    /\ wk[w].pc = "am_load"
    /\ LET old == mark[wk[w].obj] IN
         wk' = [wk EXCEPT ![w] =
                  IF old = wk[w].mark_state
                  THEN AfterAttemptMark(wk[w], FALSE)
                  ELSE [wk[w] EXCEPT !.pc = "am_cas", !.old_value = old]]
    /\ UNCHANGED <<mmtkVars, heapVars, spaceVars, nodes, copyCursor, gcVars, ghostVars, holeVars, scanned, postScanned, graphVars, schedVars>>

\* A plain store in place of the compare-and-exchange.
AttemptMarkStore(w) ==
    /\ wk[w].pc = "am_cas"
    /\ mark' = [mark EXCEPT ![wk[w].obj] = wk[w].mark_state]
    /\ wk' = [wk EXCEPT ![w] = AfterAttemptMark(wk[w], TRUE)]
    /\ UNCHANGED <<mmtkVars, fwdBits, fwdPtr, pinned, blockState, defragSource, holes, lineMark,
                   spaceVars, nodes, copyCursor, gcVars, ghostVars, holeVars, scanned, postScanned,
                   graphVars, schedVars>>

\* compare_exchange_metadata(old_value -> mark_state); retry when it fails.
AttemptMarkCAS(w) ==
    /\ wk[w].pc = "am_cas"
    /\ IF mark[wk[w].obj] = wk[w].old_value
       THEN /\ mark' = [mark EXCEPT ![wk[w].obj] = wk[w].mark_state]
            /\ wk' = [wk EXCEPT ![w] = AfterAttemptMark(wk[w], TRUE)]
       ELSE /\ mark' = mark
            /\ wk' = [wk EXCEPT ![w].pc = "am_load"]
    /\ UNCHANGED <<mmtkVars, fwdBits, fwdPtr, pinned, blockState, defragSource, holes, lineMark,
                   spaceVars, nodes, copyCursor, gcVars, ghostVars, holeVars, scanned, postScanned, graphVars, schedVars>>

(***************************************************************************)
(* ImmixSpace::trace_object_without_moving                                  *)
(***************************************************************************)
\* After a successful mark: mark the lines, or the block when BLOCK_ONLY.
\* A trace_object_without_moving that sets the block Marked and marks no line.
TwmMarkBlockOnly(w) ==
    /\ wk[w].pc = "twm_marked"
    /\ blockState' = [blockState EXCEPT ![BlockOf(wk[w].obj)] = Marked]
    /\ lineMark' = lineMark
    /\ wk' = [wk EXCEPT ![w].pc = "twm_enqueue"]
    /\ UNCHANGED <<mmtkVars, mark, fwdBits, fwdPtr, pinned, defragSource, holes,
                   spaceVars, nodes, copyCursor, gcVars, ghostVars, holeVars, scanned, postScanned, graphVars, schedVars>>

TwmMarkBlockAndLines(w) ==
    /\ wk[w].pc = "twm_marked"
    /\ IF ~BLOCK_ONLY
       THEN /\ IF ~MARK_LINE_AT_SCAN_TIME THEN MarkLines(wk[w].obj)
               ELSE lineMark' = lineMark
            /\ blockState' = blockState
       ELSE /\ blockState' = [blockState EXCEPT ![BlockOf(wk[w].obj)] = Marked]
            /\ lineMark' = lineMark
    /\ wk' = [wk EXCEPT ![w].pc = "twm_enqueue"]
    /\ UNCHANGED <<mmtkVars, mark, fwdBits, fwdPtr, pinned, defragSource, holes,
                   spaceVars, nodes, copyCursor, gcVars, ghostVars, holeVars, scanned, postScanned, graphVars, schedVars>>

\* queue.enqueue(object); return object.
TwmEnqueue(w) ==
    /\ wk[w].pc = "twm_enqueue"
    /\ nodes' = [nodes EXCEPT ![w] = Append(@, wk[w].obj)]
    /\ wk' = [wk EXCEPT ![w].pc = "ret", ![w].ret = wk[w].obj, ![w].enq = @ + 1]
    /\ UNCHANGED <<mmtkVars, heapVars, spaceVars, copyCursor, gcVars, ghostVars, holeVars, scanned, postScanned, graphVars, schedVars>>


(***************************************************************************)
(* ImmixSpace::trace_object_with_opportunistic_copy                         *)
(***************************************************************************)
\* object_forwarding::state_is_forwarded_or_being_forwarded
StateIsForwardedOrBeingForwarded(status) == status \in {"BEING", "FORWARDED"}

\* object_forwarding::attempt_to_forward: an atomic compare-and-swap of the
\* forwarding bits from NOT_FORWARDED to BEING_FORWARDED, which returns the
\* bits it found.  This is what it leaves in the bits.
BitsAfterAttemptToForward(bits) == IF bits = "NOT" THEN "BEING" ELSE bits

\* A caller that never takes the loser branch.
NeverLostForwardingRace(forwarding_status) == FALSE

\* The branch of trace_object_with_opportunistic_copy on the status that
\* attempt_to_forward returned: lost the race, or won it.
LostForwardingRace(forwarding_status) ==
    StateIsForwardedOrBeingForwarded(forwarding_status)

\* let forwarding_status = attempt_to_forward(object), and the branch on it.
AttemptToForward(w) ==
    /\ wk[w].pc = "fw_attempt"
    /\ LET object == wk[w].obj
           forwarding_status == fwdBits[object]
       IN /\ fwdBits' = [fwdBits EXCEPT ![object] = BitsAfterAttemptToForward(@)]
          /\ wk' = [wk EXCEPT ![w].status = forwarding_status,
                              ![w].won = ~LostForwardingRace(forwarding_status),
                              ![w].pc = IF LostForwardingRace(forwarding_status)
                                        THEN "fw_spin" ELSE "fw_is_marked"]
    /\ UNCHANGED <<mmtkVars, mark, fwdPtr, pinned, blockState, defragSource, holes, lineMark,
                   spaceVars, nodes, copyCursor, gcVars, ghostVars, holeVars, scanned, postScanned, graphVars, schedVars>>

\* object_forwarding::spin_and_get_forwarded_object, after its loop: the
\* forwarding pointer if the bits are FORWARDED, and the object itself if the
\* winner cleared the bits.
SpinResult(object, forwarding_bits) ==
    IF forwarding_bits = "FORWARDED" THEN fwdPtr[object] ELSE object

\* new_object = spin_and_get_forwarded_object(object, forwarding_status):
\* one read of the bits per step while they are BEING_FORWARDED.
SpinAndGetForwardedObject(w) ==
    /\ wk[w].pc = "fw_spin"
    /\ LET object == wk[w].obj IN
         IF wk[w].status = "BEING"
         THEN /\ fwdBits[object] # "BEING"
              /\ wk' = [wk EXCEPT ![w].status = fwdBits[object]]
         ELSE wk' = [wk EXCEPT ![w].pc = "fw_loser_check",
                               ![w].new_object = SpinResult(object, wk[w].status)]
    /\ UNCHANGED <<mmtkVars, heapVars, spaceVars, nodes, copyCursor, gcVars, ghostVars, holeVars, scanned, postScanned, graphVars, schedVars>>

\* The debug assertions of the loser branch; return new_object.
LoserCheck(w) ==
    /\ wk[w].pc = "fw_loser_check"
    /\ LET object == wk[w].obj
           new_object == wk[w].new_object
           bad == IF new_object = object
                  THEN IF IsMarked(object) \/ defragExhausted \/ IsPinned(object)
                       THEN {} ELSE {"loser_same_object"}
                  ELSE IF ~defragSource[BlockOf(new_object)]
                       THEN {} ELSE {"loser_in_defrag_source"}
       IN /\ failed' = failed \cup bad
          /\ wk' = [wk EXCEPT ![w].pc = "ret", ![w].ret = new_object]
    /\ UNCHANGED <<mmtkVars, heapVars, spaceVars, nodes, copyCursor, gcVars, done, copies, holeVars, scanned, postScanned, graphVars, schedVars>>

\* Winner: is_marked(object)?
WinnerIsMarked(w) ==
    /\ wk[w].pc = "fw_is_marked"
    /\ wk' = [wk EXCEPT ![w].pc = IF IsMarked(wk[w].obj) THEN "fw_clear_marked"
                                  ELSE "fw_decide"]
    /\ UNCHANGED <<mmtkVars, heapVars, spaceVars, nodes, copyCursor, gcVars, ghostVars, holeVars, scanned, postScanned, graphVars, schedVars>>

\* A winner that returns an already marked object without clearing its
\* forwarding bits.
WinnerKeepBitsOfMarked(w) ==
    /\ wk[w].pc = "fw_clear_marked"
    /\ fwdBits' = fwdBits
    /\ wk' = [wk EXCEPT ![w].pc = "ret", ![w].ret = wk[w].obj]
    /\ UNCHANGED <<mmtkVars, mark, fwdPtr, pinned, blockState, defragSource, holes, lineMark,
                   spaceVars, nodes, copyCursor, gcVars, ghostVars, holeVars, scanned, postScanned,
                   graphVars, schedVars>>

\* Winner, already marked: clear_forwarding_bits; return object.
WinnerClearMarked(w) ==
    /\ wk[w].pc = "fw_clear_marked"
    /\ fwdBits' = [fwdBits EXCEPT ![wk[w].obj] = "NOT"]
    /\ wk' = [wk EXCEPT ![w].pc = "ret", ![w].ret = wk[w].obj]
    /\ UNCHANGED <<mmtkVars, mark, fwdPtr, pinned, blockState, defragSource, holes, lineMark,
                   spaceVars, nodes, copyCursor, gcVars, ghostVars, holeVars, scanned, postScanned, graphVars, schedVars>>

\* A winner that does not ask whether the object is pinned.
StayInPlaceIgnoringPin(object, nursery_collection) ==
    ~nursery_collection /\ defragExhausted

\* A winner that does not copy once the reserve is exhausted, in a nursery
\* collection too.
StayInPlaceEvenInNursery(object, nursery_collection) ==
    IsPinned(object) \/ defragExhausted

\* The winner moves the object unless it is pinned, or the copy reserve is
\* exhausted and this is no nursery collection.
StayInPlace(object, nursery_collection) ==
    IsPinned(object) \/ (~nursery_collection /\ defragExhausted)

\* Winner, not marked: choose between marking in place and forwarding.
WinnerDecide(w) ==
    /\ wk[w].pc = "fw_decide"
    /\ wk' = [wk EXCEPT ![w] =
                IF StayInPlace(wk[w].obj, wk[w].nursery)
                THEN [wk[w] EXCEPT !.pc = "am_load", !.inplace = TRUE]
                ELSE [wk[w] EXCEPT !.pc = "cp_alloc"]]
    /\ UNCHANGED <<mmtkVars, heapVars, spaceVars, nodes, copyCursor, gcVars, ghostVars, holeVars, scanned, postScanned, graphVars, schedVars>>

\* An in-place winner that leaves the forwarding bits BEING_FORWARDED.
InPlaceKeepBits(w) ==
    /\ wk[w].pc = "ip_clear"
    /\ fwdBits' = fwdBits
    /\ wk' = [wk EXCEPT ![w].pc = "ip_set_block"]
    /\ UNCHANGED <<mmtkVars, mark, fwdPtr, pinned, blockState, defragSource, holes, lineMark,
                   spaceVars, nodes, copyCursor, gcVars, ghostVars, holeVars, scanned, postScanned,
                   graphVars, schedVars>>

\* In place, after attempt_mark: clear_forwarding_bits.
InPlaceClear(w) ==
    /\ wk[w].pc = "ip_clear"
    /\ fwdBits' = [fwdBits EXCEPT ![wk[w].obj] = "NOT"]
    /\ wk' = [wk EXCEPT ![w].pc = "ip_set_block"]
    /\ UNCHANGED <<mmtkVars, mark, fwdPtr, pinned, blockState, defragSource, holes, lineMark,
                   spaceVars, nodes, copyCursor, gcVars, ghostVars, holeVars, scanned, postScanned, graphVars, schedVars>>

\* An in-place winner that leaves the block state alone.
InPlaceKeepBlock(w) ==
    /\ wk[w].pc = "ip_set_block"
    /\ wk' = [wk EXCEPT ![w].pc = "ip_mark_lines"]
    /\ UNCHANGED <<mmtkVars, heapVars, spaceVars, nodes, copyCursor, gcVars, ghostVars, holeVars, scanned, postScanned,
                   graphVars, schedVars>>

\* In place: Block::containing(object).set_state(Marked).
InPlaceSetBlock(w) ==
    /\ wk[w].pc = "ip_set_block"
    /\ blockState' = [blockState EXCEPT ![BlockOf(wk[w].obj)] = Marked]
    /\ wk' = [wk EXCEPT ![w].pc = "ip_mark_lines"]
    /\ UNCHANGED <<mmtkVars, mark, fwdBits, fwdPtr, pinned, defragSource, holes, lineMark,
                   spaceVars, nodes, copyCursor, gcVars, ghostVars, holeVars, scanned, postScanned, graphVars, schedVars>>

\* In place: mark_lines unless deferred to scan time; new_object = object.
InPlaceMarkLines(w) ==
    /\ wk[w].pc = "ip_mark_lines"
    /\ IF ~MARK_LINE_AT_SCAN_TIME THEN MarkLines(wk[w].obj) ELSE lineMark' = lineMark
    /\ wk' = [wk EXCEPT ![w].pc = "fw_finish", ![w].new_object = wk[w].obj]
    /\ UNCHANGED <<mmtkVars, mark, fwdBits, fwdPtr, pinned, blockState, defragSource, holes,
                   spaceVars, nodes, copyCursor, gcVars, ghostVars, holeVars, scanned, postScanned, graphVars, schedVars>>

\* forward_object, first part: alloc_copy in the worker's copy allocator,
\* which takes a clean copy block when it has no room, and the copy itself.
CopyAlloc(w) ==
    /\ wk[w].pc = "cp_alloc"
    /\ LET object == wk[w].obj
           b == Acquire
           addr == IF copyCursor[w] # NoAddr THEN copyCursor[w]
                   ELSE IF b # NoAddr THEN BlockStart(b) ELSE NoAddr
       IN IF addr = NoAddr
          THEN \* Out of memory while copying: a hard failure.
               /\ failed' = failed \cup {"copy_out_of_memory"}
               /\ wk' = [wk EXCEPT ![w].pc = "halt"]
               /\ UNCHANGED <<heapVars, spaceVars, copyCursor, copies, field>>
          ELSE /\ IF copyCursor[w] = NoAddr
                  THEN /\ GetCleanBlockInit(b, TRUE)
                       /\ UNCHANGED <<line_mark_state, line_unavail_state, in_defrag>>
                  ELSE UNCHANGED <<blockState, defragSource, holes, spaceVars>>
               /\ copyCursor' = [copyCursor EXCEPT ![w] =
                                   IF LineIndex(addr + 1) = 0 THEN NoAddr ELSE addr + 1]
               /\ pinned' = [pinned EXCEPT ![addr] = FALSE]
               /\ field' = [field EXCEPT ![addr] = field[object]]
               /\ copies' = [copies EXCEPT ![object] = @ + 1]
               /\ wk' = [wk EXCEPT ![w].pc = "cp_post_copy", ![w].new_object = addr,
                                   ![w].copied = TRUE]
               /\ UNCHANGED <<mark, fwdBits, fwdPtr, lineMark, failed>>
    /\ UNCHANGED <<mmtkVars, nodes, gcVars, done, holeVars, scanned, postScanned, rootSlot, schedVars>>

\* A post_copy that leaves the mark bit of the copy alone.
PostCopyWithoutMark(w) ==
    /\ wk[w].pc = "cp_post_copy"
    /\ IF ~MARK_LINE_AT_SCAN_TIME THEN MarkLines(wk[w].new_object)
       ELSE lineMark' = lineMark
    /\ wk' = [wk EXCEPT ![w].pc = "cp_publish"]
    /\ UNCHANGED <<mmtkVars, mark, fwdBits, fwdPtr, pinned, blockState, defragSource, holes,
                   spaceVars, nodes, copyCursor, gcVars, ghostVars, holeVars, scanned, postScanned,
                   graphVars, schedVars>>

\* ImmixSpace::post_copy: store mark_state on the copy and mark its lines.
PostCopy(w) ==
    /\ wk[w].pc = "cp_post_copy"
    /\ mark' = [mark EXCEPT ![wk[w].new_object] = MARKED_STATE]
    /\ IF ~MARK_LINE_AT_SCAN_TIME THEN MarkLines(wk[w].new_object)
       ELSE lineMark' = lineMark
    /\ wk' = [wk EXCEPT ![w].pc = "cp_publish"]
    /\ UNCHANGED <<mmtkVars, fwdBits, fwdPtr, pinned, blockState, defragSource, holes,
                   spaceVars, nodes, copyCursor, gcVars, ghostVars, holeVars, scanned, postScanned, graphVars, schedVars>>

\* forward_object, last part: install the forwarding pointer and publish
\* FORWARDED.
PublishForwarded(w) ==
    /\ wk[w].pc = "cp_publish"
    /\ fwdPtr' = [fwdPtr EXCEPT ![wk[w].obj] = wk[w].new_object]
    /\ fwdBits' = [fwdBits EXCEPT ![wk[w].obj] = "FORWARDED"]
    /\ wk' = [wk EXCEPT ![w].pc = "fw_finish"]
    /\ UNCHANGED <<mmtkVars, mark, pinned, blockState, defragSource, holes, lineMark,
                   spaceVars, nodes, copyCursor, gcVars, ghostVars, holeVars, scanned, postScanned, graphVars, schedVars>>

\* Winner, not marked, end: assert the block of new_object is Marked;
\* queue.enqueue(new_object); return new_object.
WinnerFinish(w) ==
    /\ wk[w].pc = "fw_finish"
    /\ LET new_object == wk[w].new_object IN
         /\ failed' = IF blockState[BlockOf(new_object)] = Marked THEN failed
                      ELSE failed \cup {"new_object_block_not_marked"}
         /\ nodes' = [nodes EXCEPT ![w] = Append(@, new_object)]
         /\ wk' = [wk EXCEPT ![w].pc = "ret", ![w].ret = new_object, ![w].enq = @ + 1]
    /\ UNCHANGED <<mmtkVars, heapVars, spaceVars, copyCursor, gcVars, done, copies, holeVars, scanned, postScanned, graphVars, schedVars>>


(***************************************************************************)
(* PolicyTraceObject for ImmixSpace                                         *)
(***************************************************************************)
\* A policy none of whose trace kinds may move objects.
MayMoveObjectsNever(kind) == FALSE

\* PolicyTraceObject::may_move_objects::<KIND>()
MayMoveObjects(kind) == kind = TRACE_KIND_DEFRAG

\* A dispatch that looks at the trace kind only.
DispatchesOnKindOnly(object, kind) == kind = TRACE_KIND_DEFRAG

\* Whether trace_object::<KIND> dispatches to the opportunistic copy.
DispatchesToCopy(object, kind) ==
    kind = TRACE_KIND_DEFRAG /\ defragSource[BlockOf(object)]

\* PolicyTraceObject::trace_object::<KIND>(queue, object, copy, worker): the
\* call the worker starts, and the debug assertions of the dispatch.
TraceObject(w, object, kind) ==
    /\ wk[w].pc = "idle"
    /\ LET moving == DispatchesToCopy(object, kind) IN
         /\ wk' = [wk EXCEPT ![w] =
                     [IdleCall EXCEPT !.entry = "trace_object", !.obj = object, !.gc = gcCount,
                                      !.kind = kind, !.nursery = FALSE,
                                      !.src_defrag = defragSource[BlockOf(object)],
                                      !.fn = IF moving THEN "twoc" ELSE "twm",
                                      !.pc = IF moving THEN "fw_attempt" ELSE "am_load"]]
         /\ failed' = failed
                \cup (IF moving /\ ~in_defrag THEN {"defrag_source_outside_defrag"} ELSE {})
                \cup (IF moving /\ nurseryGC THEN {"policy_trace_in_nursery_gc"} ELSE {})

\* A direct call of trace_object_without_moving(queue, object).
TraceObjectWithoutMoving(w, object) ==
    /\ wk[w].pc = "idle"
    /\ wk' = [wk EXCEPT ![w] =
                [IdleCall EXCEPT !.entry = "direct", !.obj = object, !.gc = gcCount, !.fn = "twm",
                                 !.src_defrag = defragSource[BlockOf(object)],
                                 !.pc = "am_load"]]

\* A direct call of trace_object_with_opportunistic_copy(queue, object,
\* semantics, worker, nursery_collection).
TraceObjectWithOpportunisticCopy(w, object, nursery_collection) ==
    /\ wk[w].pc = "idle"
    /\ wk' = [wk EXCEPT ![w] =
                [IdleCall EXCEPT !.entry = "direct", !.obj = object, !.gc = gcCount, !.fn = "twoc",
                                 !.kind = TRACE_KIND_DEFRAG,
                                 !.nursery = nursery_collection,
                                 !.src_defrag = defragSource[BlockOf(object)],
                                 !.pc = "fw_attempt"]]

\* One step of whatever trace function worker w is in.
TraceStep(w) ==
    \/ AttemptMarkLoad(w)
    \/ AttemptMarkCAS(w)
    \/ TwmMarkBlockAndLines(w)
    \/ TwmEnqueue(w)
    \/ AttemptToForward(w)
    \/ SpinAndGetForwardedObject(w)
    \/ LoserCheck(w)
    \/ WinnerIsMarked(w)
    \/ WinnerClearMarked(w)
    \/ WinnerDecide(w)
    \/ InPlaceClear(w)
    \/ InPlaceSetBlock(w)
    \/ InPlaceMarkLines(w)
    \/ CopyAlloc(w)
    \/ PostCopy(w)
    \/ PublishForwarded(w)
    \/ WinnerFinish(w)

(***************************************************************************)
(* The trace phase of one collection: workers trace the references they     *)
(* know, in the order of the scheduler's stages.                            *)
(***************************************************************************)
RECURSIVE CallsOf(_)
CallsOf(ws) ==
    IF ws = {} THEN 0
    ELSE LET w == CHOOSE x \in ws : TRUE IN
           Len(done[w]) + (IF wk[w].pc = "idle" THEN 0 ELSE 1) + CallsOf(ws \ {w})
CanCall(w) == wk[w].pc = "idle" /\ CallsOf(Workers) < MaxCalls

\* A packet of the pinning-root stages traces a root with the non-moving
\* PinningProcessEdges.
CallPinning(w) ==
    /\ CanCall(w) /\ ~closureOpen
    /\ \E object \in known :
         IF nurseryGC THEN TraceObjectWithoutMoving(w, object) /\ failed' = failed
         ELSE TraceObject(w, object, TRACE_KIND_TRANSITIVE_PIN)
    /\ UNCHANGED <<mmtkVars, heapVars, spaceVars, nodes, copyCursor, gcVars, done, copies, holeVars, scanned, postScanned, graphVars, schedVars>>

\* A packet of the Closure stage traces a reference: through the plan's
\* DefaultProcessEdges in a major collection, and as a sticky nursery does in
\* a nursery collection.
CallClosure(w) ==
    /\ CanCall(w) /\ closureOpen
    /\ \E object \in known :
         IF nurseryGC
         THEN TraceObjectWithOpportunisticCopy(w, object, TRUE) /\ failed' = failed
         ELSE TraceObject(w, object, dpeKind)
    /\ UNCHANGED <<mmtkVars, heapVars, spaceVars, nodes, copyCursor, gcVars, done, copies, holeVars, scanned, postScanned, graphVars, schedVars>>

\* The call returns: its result is stored where the reference came from.
Return(w) ==
    /\ wk[w].pc = "ret"
    /\ done' = [done EXCEPT ![w] = Append(@, wk[w])]
    /\ known' = known \cup {wk[w].ret}
    /\ wk' = [wk EXCEPT ![w] = IdleCall]
    /\ UNCHANGED <<mmtkVars, heapVars, spaceVars, nodes, copyCursor, nurseryGC, dpeKind,
                   closureOpen, copies, failed, holeVars, scanned, postScanned, graphVars, schedVars>>

\* The pinning stages have drained: the scheduler opens the Closure bucket.
OpenClosure ==
    /\ ~closureOpen
    /\ \A w \in Workers : wk[w].pc = "idle"
    /\ closureOpen' = TRUE
    /\ UNCHANGED <<mmtkVars, heapVars, spaceVars, workerVars, known, nurseryGC, dpeKind,
                   ghostVars, holeVars, scanned, postScanned, graphVars, schedVars>>

\* The state when the trace phase of a collection starts.  A major
\* collection has run prepare: no object is marked, every allocated block is
\* Unmarked, and blocks are defrag sources only in a defrag collection.  A
\* nursery collection finds old objects marked, in swept blocks.
InitTrace ==
    /\ nurseryGC \in BOOLEAN
    /\ in_defrag \in (IF nurseryGC THEN {FALSE} ELSE BOOLEAN)
    /\ dpeKind \in (IF nurseryGC THEN {TRACE_KIND_FAST}
                    ELSE {TRACE_KIND_FAST, TRACE_KIND_DEFRAG})
    /\ \E P \in SUBSET OrigObjs : pinned = [a \in Addrs |-> a \in P]
    /\ \E S \in (IF in_defrag THEN SUBSET MutBlocks ELSE {{}}) :
         defragSource = [b \in Blocks |-> b \in S]
    /\ \E M \in (IF nurseryGC THEN SUBSET OrigObjs ELSE {{}}) :
         /\ mark = [a \in Addrs |-> IF a \in M THEN MARKED_STATE ELSE UNMARKED_STATE]
         /\ blockState = [b \in Blocks |->
                            IF b \notin MutBlocks THEN Unallocated
                            ELSE IF BlockStart(b) \in M THEN Reusable(1) ELSE Unmarked]
         /\ lineMark = [l \in Addrs |-> IF l \in M THEN RESET_MARK_STATE + 1 ELSE 0]
    /\ fwdBits = [a \in Addrs |-> "NOT"]
    /\ fwdPtr = [a \in Addrs |-> NoAddr]
    /\ holes = [b \in Blocks |-> 0]
    /\ line_mark_state = RESET_MARK_STATE + 1
    /\ line_unavail_state = IF nurseryGC THEN RESET_MARK_STATE + 1 ELSE RESET_MARK_STATE
    /\ lines_consumed = Cardinality(MutBlocks) * LINES
    /\ defragExhausted \in (IF nurseryGC \/ in_defrag THEN BOOLEAN ELSE {FALSE})
    /\ defragAvail \in (IF in_defrag /\ ~defragExhausted THEN 1 .. MaxReserve ELSE {0})
    /\ chunkAllocated = [c \in Chunks |-> ChunkBlocks(c) \cap MutBlocks # {}]
    /\ wk = [w \in Workers |-> IdleCall]
    /\ nodes = [w \in Workers |-> <<>>]
    /\ copyCursor = [w \in Workers |-> NoAddr]
    /\ known = OrigObjs
    /\ closureOpen = FALSE
    /\ done = [w \in Workers |-> <<>>]
    /\ copies = [a \in Addrs |-> 0]
    /\ failed = {}
    /\ holeStart = NoAddr
    /\ scanned = [a \in Addrs |-> 0]
    /\ postScanned = [a \in Addrs |-> 0]
    /\ never_move_objects = NEVER_MOVE_OBJECTS
    /\ sentinel = NoPacket
    /\ weakRounds = <<>>
    /\ gc_status = "GcProper"
    /\ scanned_stacks = 0
    /\ holeRes = NoHole
    /\ field = [a \in Addrs |-> NoAddr]
    /\ rootSlot = [r \in RootIds |-> NoAddr]
    /\ buckets = [st \in Stages |-> {}]
    /\ stage = "Closure"
    /\ pkt = [w \in Workers |-> NoPacket]
    /\ epilogueCounter = 0
    /\ flushes = 0
    /\ gcCount = 0
    /\ vmRoots = NoRoots
    /\ reusable_blocks = {}
    /\ defrag_spill_threshold = 0
    /\ lastAlloc = NoAlloc

Init == InitTrace

Next ==
    \/ \E w \in Workers : CallPinning(w)
    \/ \E w \in Workers : CallClosure(w)
    \/ \E w \in Workers : TraceStep(w)
    \/ \E w \in Workers : Return(w)
    \/ OpenClosure

Spec == Init /\ [][Next]_vars

TypeOK ==
    /\ mark \in [Addrs -> {UNMARKED_STATE, MARKED_STATE}]
    /\ fwdBits \in [Addrs -> {"NOT", "BEING", "FORWARDED"}]
    /\ blockState \in [Blocks -> BlockStates]
    /\ lineMark \in [Addrs -> LineStates]


(***************************************************************************)
(* ImmixSpace::get_next_available_lines                                     *)
(***************************************************************************)
\* block.line_mark_table().get(cursor)
MarkData(block, cursor) == lineMark[BlockStart(block) + cursor]

\* A find-start loop that stops at the cursor it is given.
FindStartNoSkip(block, cursor, unavail_state, current_state) == cursor

\* A find-limit loop that stops after one line.
FindLimitOneLine(block, cursor, unavail_state, current_state) == cursor + 1

\* "Find start": advance the cursor past the lines whose mark is the
\* unavailable state or the current state.
RECURSIVE FindStart(_, _, _, _)
FindStart(block, cursor, unavail_state, current_state) ==
    IF cursor < LINES
       /\ ~(MarkData(block, cursor) # unavail_state /\ MarkData(block, cursor) # current_state)
    THEN FindStart(block, cursor + 1, unavail_state, current_state)
    ELSE cursor

\* "Find limit": advance the cursor past the available lines.
RECURSIVE FindLimit(_, _, _, _)
FindLimit(block, cursor, unavail_state, current_state) ==
    IF cursor < LINES
       /\ ~(MarkData(block, cursor) = unavail_state \/ MarkData(block, cursor) = current_state)
    THEN FindLimit(block, cursor + 1, unavail_state, current_state)
    ELSE cursor

\* A search that returns the rest of the block whatever its lines hold.
GetNextAvailableLinesRestOfBlock(search_start) ==
    <<search_start, BlockStart(BlockOf(search_start)) + LINES>>

\* get_next_available_lines(search_start): NoHole for None, else <<start, end>>.
GetNextAvailableLines(search_start) ==
    LET unavail_state == line_unavail_state
        current_state == line_mark_state
        block == BlockOf(search_start)
        start_cursor == LineIndex(search_start)
        cursor == FindStart(block, start_cursor, unavail_state, current_state)
    IN IF cursor = LINES THEN NoHole
       ELSE <<search_start + (cursor - start_cursor),
              search_start
                + (FindLimit(block, cursor, unavail_state, current_state) - start_cursor)>>

\* The debug assertion before the function returns Some((start, end)).
HoleAssertion(res) ==
    \A line \in res[1] .. (res[2] - 1) :
        lineMark[line] # line_unavail_state /\ lineMark[line] # line_mark_state

\* An allocator searches block 0 for a hole, from any of its lines or from
\* the line that follows its last one.  The search only reads, so one search
\* per behaviour covers every search of the same table.
HoleSearch ==
    /\ holeStart = NoAddr
    /\ \E search_start \in BlockStart(0) .. BlockStart(1) :
         /\ holeStart' = search_start
         /\ holeRes' = GetNextAvailableLines(search_start)
    /\ failed' = IF holeRes' = NoHole \/ HoleAssertion(holeRes') THEN failed
                 ELSE failed \cup {"hole_not_available"}
    /\ UNCHANGED <<mmtkVars, heapVars, spaceVars, workerVars, gcVars, done, copies, scanned, postScanned, graphVars,
                   schedVars>>

\* A rotation that never wraps.
NextMarkStateNoWrap(v) == v + 1

\* The line mark states of a running program: equal after a release,
\* line_mark_state one step ahead between a major prepare and its release.
NextMarkState(v) == IF v + 1 > MAX_MARK_STATE THEN RESET_MARK_STATE ELSE v + 1

\* Any line mark table for block 0, with the other blocks free.
InitLines ==
    /\ line_unavail_state \in RESET_MARK_STATE .. MAX_MARK_STATE
    /\ line_mark_state \in {line_unavail_state, NextMarkState(line_unavail_state)}
    /\ \E t \in [BlockLines(0) -> LineStates] :
         lineMark = [l \in Addrs |-> IF l \in BlockLines(0) THEN t[l] ELSE 0]
    /\ blockState = [b \in Blocks |-> IF b = 0 THEN Unmarked ELSE Unallocated]
    /\ mark = [a \in Addrs |-> UNMARKED_STATE]
    /\ fwdBits = [a \in Addrs |-> "NOT"]
    /\ fwdPtr = [a \in Addrs |-> NoAddr]
    /\ pinned = [a \in Addrs |-> FALSE]
    /\ defragSource = [b \in Blocks |-> FALSE]
    /\ holes = [b \in Blocks |-> 0]
    /\ lines_consumed = 0
    /\ in_defrag = FALSE
    /\ defragAvail = 0
    /\ defragExhausted = FALSE
    /\ chunkAllocated = [c \in Chunks |-> ChunkBlocks(c) \cap MutBlocks # {}]
    /\ wk = [w \in Workers |-> IdleCall]
    /\ nodes = [w \in Workers |-> <<>>]
    /\ copyCursor = [w \in Workers |-> NoAddr]
    /\ known = {}
    /\ nurseryGC = FALSE
    /\ dpeKind = TRACE_KIND_FAST
    /\ closureOpen = FALSE
    /\ done = [w \in Workers |-> <<>>]
    /\ copies = [a \in Addrs |-> 0]
    /\ failed = {}
    /\ holeStart = NoAddr
    /\ scanned = [a \in Addrs |-> 0]
    /\ postScanned = [a \in Addrs |-> 0]
    /\ never_move_objects = NEVER_MOVE_OBJECTS
    /\ sentinel = NoPacket
    /\ weakRounds = <<>>
    /\ gc_status = "GcProper"
    /\ scanned_stacks = 0
    /\ holeRes = NoHole
    /\ field = [a \in Addrs |-> NoAddr]
    /\ rootSlot = [r \in RootIds |-> NoAddr]
    /\ buckets = [st \in Stages |-> {}]
    /\ stage = "Closure"
    /\ pkt = [w \in Workers |-> NoPacket]
    /\ epilogueCounter = 0
    /\ flushes = 0
    /\ gcCount = 0
    /\ vmRoots = NoRoots
    /\ reusable_blocks = {}
    /\ defrag_spill_threshold = 0
    /\ lastAlloc = NoAlloc

NextLines == HoleSearch

SpecLines == InitLines /\ [][NextLines]_vars


(***************************************************************************)
(* ImmixSpace::attempt_mark across collections: PrepareBlockState clears    *)
(* the marks between the trace phases.                                      *)
(***************************************************************************)
\* ImmixSpace::is_defrag_enabled
IsDefragEnabled == ~never_move_objects

\* The defrag_threshold of a packet made outside a defrag collection (None).
NoThreshold == 0 - 1

\* A PrepareBlockState that makes every block a defrag source when
\* defragmentation is enabled, whatever the collection.
IsDefragSourceWheneverEnabled(b, defrag_threshold) == IsDefragEnabled

\* A PrepareBlockState for which a block with as many holes as the threshold
\* is a defrag source already.
IsDefragSourceAtThreshold(b, defrag_threshold) ==
    IsDefragEnabled /\ defrag_threshold # NoThreshold /\ holes[b] >= defrag_threshold

\* A PrepareBlockState that makes every block a defrag source, whatever the
\* space was created with.
IsDefragSourceEveryBlock(b, defrag_threshold) == TRUE

\* Whether PrepareBlockState makes the block a defrag source.
IsDefragSource(b, defrag_threshold) ==
    IF ~IsDefragEnabled THEN FALSE
    ELSE IF DEFRAG_EVERY_BLOCK THEN TRUE
    ELSE IF defrag_threshold # NoThreshold THEN holes[b] > defrag_threshold
    ELSE FALSE

\* A PrepareBlockState that leaves the state of the blocks alone.
PrepareBlockStateKeepingState(chunks, defrag_threshold) ==
    LET visited == {b \in Blocks : ChunkOf(b) \in chunks /\ blockState[b] # Unallocated}
    IN /\ mark' = [a \in Addrs |-> IF ChunkOf(BlockOf(a)) \in chunks THEN UNMARKED_STATE
                                   ELSE mark[a]]
       /\ defragSource' = [b \in Blocks |->
                             IF b \in visited THEN IsDefragSource(b, defrag_threshold)
                             ELSE defragSource[b]]
       /\ blockState' = blockState

\* A PrepareBlockState that does not skip the unallocated blocks.
PrepareBlockStateVisitingAll(chunks, defrag_threshold) ==
    LET visited == {b \in Blocks : ChunkOf(b) \in chunks}
    IN /\ mark' = [a \in Addrs |-> IF ChunkOf(BlockOf(a)) \in chunks THEN UNMARKED_STATE
                                   ELSE mark[a]]
       /\ defragSource' = [b \in Blocks |->
                             IF b \in visited THEN IsDefragSource(b, defrag_threshold)
                             ELSE defragSource[b]]
       /\ blockState' = [b \in Blocks |-> IF b \in visited THEN Unmarked
                                          ELSE blockState[b]]

\* PrepareBlockState::do_work for the packets of a set of chunks: clear the
\* mark bits of each chunk, then visit every allocated block of it.
PrepareBlockState(chunks, defrag_threshold) ==
    LET visited == {b \in Blocks : ChunkOf(b) \in chunks /\ blockState[b] # Unallocated}
    IN /\ mark' = [a \in Addrs |-> IF ChunkOf(BlockOf(a)) \in chunks THEN UNMARKED_STATE
                                   ELSE mark[a]]
       /\ defragSource' = [b \in Blocks |->
                             IF b \in visited THEN IsDefragSource(b, defrag_threshold)
                             ELSE defragSource[b]]
       /\ blockState' = [b \in Blocks |-> IF b \in visited THEN Unmarked
                                          ELSE blockState[b]]

\* The calls that have returned, each under its own name.
ReturnedIds ==
    UNION {{<<w, i>> : i \in 1 .. Len(done[w])} : w \in Workers}
      \cup {<<w, 0>> : w \in {x \in Workers : wk[x].pc = "ret"}}
CallOf(id) == IF id[2] = 0 THEN wk[id[1]] ELSE done[id[1]][id[2]]

\* The calls of attempt_mark on object o in collection g that have returned.
ReturnedMarks(o, g) ==
    {id \in ReturnedIds : /\ CallOf(id).fn = "attempt_mark"
                          /\ CallOf(id).obj = o
                          /\ CallOf(id).gc = g}

\* A worker calls attempt_mark(object, mark_state).
CallAttemptMark(w) ==
    /\ CanCall(w)
    /\ \E object \in OrigObjs :
         wk' = [wk EXCEPT ![w] =
                  [IdleCall EXCEPT !.entry = "direct", !.fn = "attempt_mark",
                                   !.obj = object, !.gc = gcCount,
                                   !.mark_state = MARKED_STATE,
                                   !.late = ReturnedMarks(object, gcCount) # {},
                                   !.pc = "am_load"]]
    /\ UNCHANGED <<mmtkVars, heapVars, spaceVars, nodes, copyCursor, gcVars, ghostVars, holeVars, scanned, postScanned,
                   graphVars, schedVars>>

\* attempt_mark returns its result.
ReturnMark(w) ==
    /\ wk[w].pc = "ret"
    /\ wk[w].fn = "attempt_mark"
    /\ done' = [done EXCEPT ![w] = Append(@, wk[w])]
    /\ wk' = [wk EXCEPT ![w] = IdleCall]
    /\ UNCHANGED <<mmtkVars, heapVars, spaceVars, nodes, copyCursor, gcVars, copies, failed,
                   holeVars, scanned, postScanned, graphVars, schedVars>>

\* The next collection starts: its PrepareBlockState packets, one for each
\* allocated chunk, run in the Prepare stage, when no worker traces.
RunPrepareBlockState ==
    /\ gcCount < MaxGCs
    /\ \A w \in Workers : wk[w].pc = "idle"
    /\ \E defrag_threshold \in (IF in_defrag THEN 0 .. MaxHoles ELSE {NoThreshold}) :
         PrepareBlockState({c \in Chunks : chunkAllocated[c]}, defrag_threshold)
    /\ gcCount' = gcCount + 1
    /\ UNCHANGED <<mmtkVars, fwdBits, fwdPtr, pinned, holes, lineMark, spaceVars, workerVars,
                   gcVars, ghostVars, holeVars, scanned, postScanned, graphVars, buckets, stage, pkt,
                   epilogueCounter, flushes, vmRoots, poolVars>>

\* A heap of unmarked objects in allocated blocks; the sweep of the last
\* collection found any number of holes in block 0 and none in the others.
InitMark ==
    /\ in_defrag \in BOOLEAN
    /\ \E n \in 0 .. MaxHoles : holes = [b \in Blocks |-> IF b = 0 THEN n ELSE 0]
    /\ mark = [a \in Addrs |-> UNMARKED_STATE]
    /\ blockState = [b \in Blocks |-> IF b \in MutBlocks THEN Unmarked ELSE Unallocated]
    /\ lineMark = [l \in Addrs |-> 0]
    /\ fwdBits = [a \in Addrs |-> "NOT"]
    /\ fwdPtr = [a \in Addrs |-> NoAddr]
    /\ pinned = [a \in Addrs |-> FALSE]
    /\ defragSource = [b \in Blocks |-> FALSE]
    /\ line_mark_state = RESET_MARK_STATE
    /\ line_unavail_state = RESET_MARK_STATE
    /\ lines_consumed = Cardinality(MutBlocks) * LINES
    /\ defragAvail = 0
    /\ defragExhausted = FALSE
    /\ chunkAllocated = [c \in Chunks |-> ChunkBlocks(c) \cap MutBlocks # {}]
    /\ wk = [w \in Workers |-> IdleCall]
    /\ nodes = [w \in Workers |-> <<>>]
    /\ copyCursor = [w \in Workers |-> NoAddr]
    /\ known = OrigObjs
    /\ nurseryGC = FALSE
    /\ dpeKind = TRACE_KIND_FAST
    /\ closureOpen = FALSE
    /\ done = [w \in Workers |-> <<>>]
    /\ copies = [a \in Addrs |-> 0]
    /\ failed = {}
    /\ holeStart = NoAddr
    /\ scanned = [a \in Addrs |-> 0]
    /\ postScanned = [a \in Addrs |-> 0]
    /\ never_move_objects = NEVER_MOVE_OBJECTS
    /\ sentinel = NoPacket
    /\ weakRounds = <<>>
    /\ gc_status = "GcProper"
    /\ scanned_stacks = 0
    /\ holeRes = NoHole
    /\ field = [a \in Addrs |-> NoAddr]
    /\ rootSlot = [r \in RootIds |-> NoAddr]
    /\ buckets = [st \in Stages |-> {}]
    /\ stage = "Closure"
    /\ pkt = [w \in Workers |-> NoPacket]
    /\ epilogueCounter = 0
    /\ flushes = 0
    /\ gcCount = 0
    /\ vmRoots = NoRoots
    /\ reusable_blocks = {}
    /\ defrag_spill_threshold = 0
    /\ lastAlloc = NoAlloc

NextMark ==
    \/ \E w \in Workers : CallAttemptMark(w)
    \/ \E w \in Workers : AttemptMarkLoad(w)
    \/ \E w \in Workers : AttemptMarkCAS(w)
    \/ \E w \in Workers : ReturnMark(w)
    \/ RunPrepareBlockState

SpecMark == InitMark /\ [][NextMark]_vars

(***************************************************************************)
(* One major collection: the work packets of gc_work.rs, run by the         *)
(* workers stage by stage, and the release of the space.                    *)
(***************************************************************************)
RECURSIVE SetToSeq(_)
SetToSeq(S) ==
    IF S = {} THEN <<>>
    ELSE LET x == CHOOSE y \in S : \A z \in S : y <= z
         IN <<x>> \o SetToSeq(S \ {x})

\* The root slots of the mutators, as slots.
RootSlots == [i \in 1 .. Cardinality(RootIds) |-> RootSlotAt(SetToSeq(RootIds)[i])]

\* A mutator thread: the root slots and the pinned objects the VM reports
\* when its stack is scanned.
Mutator(slots, objs) == [slots |-> slots, objs |-> objs]

\* VMActivePlan::number_of_mutators
NumberOfMutators == Len(vmRoots.mutators)

\* The ScanMutatorRoots packets of the mutators.
ScanMutatorRootsPackets ==
    {[Packet("ScanMutatorRoots", "none", "none", vmRoots.mutators[m].slots,
             vmRoots.mutators[m].objs, "Prepare") EXCEPT !.mutator = m] :
       m \in 1 .. NumberOfMutators}

\* The trace kind of a ProcessEdgesWork type: the plan's DefaultProcessEdges
\* or its PinningProcessEdges.
KindOf(pe) == IF pe = "PPE" THEN TRACE_KIND_TRANSITIVE_PIN ELSE dpeKind

\* Slot::load and Slot::store
SlotLoad(slot) == IF slot.root THEN rootSlot[slot.at] ELSE field[slot.at]
SlotStore(slot, object) ==
    IF slot.root
    THEN /\ rootSlot' = [rootSlot EXCEPT ![slot.at] = object]
         /\ field' = field
    ELSE /\ field' = [field EXCEPT ![slot.at] = object]
         /\ rootSlot' = rootSlot

\* WorkBucket::add
AddPacket(bk, st, packet) == [bk EXCEPT ![st] = @ \cup {packet}]

\* RootsWorkFactory::create_process_roots_work
CreateProcessRootsWork(bk, slots) ==
    AddPacket(bk, "Closure",
              [Packet("PE", "none", "DPE", slots, <<>>, "Closure") EXCEPT !.roots = TRUE])

\* A factory that puts the pinning roots into the Closure bucket.
CreateProcessPinningRootsWorkInClosure(bk, root_nodes) ==
    AddPacket(bk, "Closure", Packet("PRN", "PPE", "DPE", <<>>, root_nodes, "Closure"))

\* RootsWorkFactory::create_process_pinning_roots_work
CreateProcessPinningRootsWork(bk, root_nodes) ==
    AddPacket(bk, "PinningRootsTrace",
              Packet("PRN", "PPE", "DPE", <<>>, root_nodes, "Closure"))

\* A factory whose transitively pinning roots have their descendants traced
\* by DefaultProcessEdges.
CreateProcessTPinningRootsWorkWithDPE(bk, root_nodes) ==
    AddPacket(bk, "TPinningClosure",
              Packet("PRN", "PPE", "DPE", <<>>, root_nodes, "TPinningClosure"))

\* RootsWorkFactory::create_process_tpinning_roots_work
CreateProcessTPinningRootsWork(bk, root_nodes) ==
    AddPacket(bk, "TPinningClosure",
              Packet("PRN", "PPE", "PPE", <<>>, root_nodes, "TPinningClosure"))

\* Scanning::scan_object: the slots of the objects, in order.
RECURSIVE ScanObjectsSlots(_)
ScanObjectsSlots(objs) ==
    IF objs = <<>> THEN <<>>
    ELSE <<FieldSlotOf(Head(objs))>> \o ScanObjectsSlots(Tail(objs))

\* ObjectsClosure: the slots it collected become a ProcessEdges packet of
\* the same bucket.
ObjectsClosureFlush(bk, pe, slots, bucket) ==
    IF slots = <<>> THEN bk
    ELSE AddPacket(bk, bucket, Packet("PE", "none", pe, slots, <<>>, bucket))

\* PolicyTraceObject::post_scan_object for each scanned object.
RECURSIVE PostScanObjects(_, _)
PostScanObjects(table, objs) ==
    IF objs = <<>> \/ ~(MARK_LINE_AT_SCAN_TIME /\ ~BLOCK_ONLY) THEN table
    ELSE PostScanObjects(MarkLinesForObject(table, Head(objs), line_mark_state), Tail(objs))

\* The scan counts after every object of the buffer was scanned once more.
RECURSIVE CountScans(_, _)
CountScans(table, objs) ==
    IF objs = <<>> THEN table
    ELSE CountScans([table EXCEPT ![Head(objs)] = @ + 1], Tail(objs))

\* Scanning::support_slot_enqueuing(tls, object): the VM decides by the type
\* of the object, which a copy shares with its original.
SupportSlotEnqueuing(object) ==
    \A o \in vmRoots.node_scan : object # o /\ fwdPtr[o] # object

\* do_work_common: the objects of the buffer that are scanned by
\* slot-enqueuing, and scan_later, the objects postponed to the tracer.
ScanNow(buffer) == SelectSeq(buffer, SupportSlotEnqueuing)
ScanLater(buffer) == SelectSeq(buffer, LAMBDA object : ~SupportSlotEnqueuing(object))

\* A do_work_common whose closure drops the slots it collected.
DoWorkCommonDroppingSlots(pe, buffer, bucket) ==
    /\ buckets' = buckets
    /\ lineMark' = PostScanObjects(lineMark, ScanNow(buffer))
    /\ scanned' = CountScans(scanned, ScanNow(buffer))
    /\ postScanned' = CountScans(postScanned, ScanNow(buffer))

\* ScanObjectsWork::do_work_common(buffer), up to the call of with_tracer:
\* the objects that support slot-enqueuing are scanned into the closure.
DoWorkCommon(pe, buffer, bucket) ==
    /\ buckets' = ObjectsClosureFlush(buckets, pe, ScanObjectsSlots(ScanNow(buffer)), bucket)
    /\ lineMark' = PostScanObjects(lineMark, ScanNow(buffer))
    /\ scanned' = CountScans(scanned, ScanNow(buffer))
    /\ postScanned' = CountScans(postScanned, ScanNow(buffer))

\* do_work_common: what the worker executes after the closure was dropped,
\* the tracer's part of the scan if any object was postponed.
WithTracer(pe, buffer, bucket) ==
    IF ScanLater(buffer) = <<>> THEN NoPacket
    ELSE [Packet("SO", "none", pe, <<>>, buffer, bucket)
            EXCEPT !.scan_later = ScanLater(buffer)]

\* ProcessEdgesWorkTracer::flush: the queued nodes become a scan packet of
\* the tracer's stage.
TracerFlush(bk, pe, next_nodes, st) ==
    AddPacket(bk, st, Packet("SO", "none", pe, <<>>, next_nodes, st))

\* A worker takes a packet from the bucket of the open stage.
GetPacket(w) ==
    /\ pkt[w].type = "none"
    /\ wk[w].pc = "idle"
    /\ \E p \in buckets[stage] :
         /\ pkt' = [pkt EXCEPT ![w] = p]
         /\ buckets' = [buckets EXCEPT ![stage] = @ \ {p}]
    /\ UNCHANGED <<mmtkVars, heapVars, spaceVars, workerVars, gcVars, ghostVars, holeVars, scanned, postScanned, graphVars,
                   stage, epilogueCounter, flushes, gcCount, vmRoots, poolVars>>

\* GlobalState::inform_stack_scanned(n_mutators): whether the stack it
\* counts is the last one.
InformStackScanned(n_mutators) == scanned_stacks + 1 = n_mutators

\* StopMutators::do_work: prepare_for_stack_scanning, a ScanMutatorRoots
\* packet for each mutator the VM stops, notify_mutators_paused, which opens
\* the Prepare bucket, and the ScanVMSpecificRoots packet.
StopMutators(w) ==
    /\ pkt[w].type = "StopMutators"
    /\ scanned_stacks' = 0
    /\ buckets' = [buckets EXCEPT !["Prepare"] =
                     @ \cup ScanMutatorRootsPackets
                       \cup {Packet("ScanVMSpecificRoots", "none", "none", <<>>, <<>>,
                                    "Prepare")}]
    /\ stage' = "Prepare"
    /\ pkt' = [pkt EXCEPT ![w] = NoPacket]
    /\ UNCHANGED <<never_move_objects, weakVars, gc_status, heapVars, spaceVars, workerVars,
                   gcVars, ghostVars, holeVars, scanned, postScanned, graphVars,
                   epilogueCounter, flushes, gcCount, vmRoots, poolVars>>

\* ScanVMSpecificRoots::do_work, with a VM that has no roots of its own.
ScanVMSpecificRoots(w) ==
    /\ pkt[w].type = "ScanVMSpecificRoots"
    /\ pkt' = [pkt EXCEPT ![w] = NoPacket]
    /\ UNCHANGED <<mmtkVars, heapVars, spaceVars, workerVars, gcVars, ghostVars, holeVars,
                   scanned, postScanned, graphVars, buckets, stage, epilogueCounter, flushes,
                   gcCount, vmRoots, poolVars>>

\* A ScanMutatorRoots that sets GcProper whatever stacks remain.
ScanMutatorRootsSettingProperAtOnce(w) ==
    /\ pkt[w].type = "ScanMutatorRoots"
    /\ LET bk1 == IF pkt[w].slots = <<>> THEN buckets
                  ELSE CreateProcessRootsWork(buckets, pkt[w].slots)
           bk2 == IF pkt[w].objs = <<>> THEN bk1
                  ELSE CreateProcessPinningRootsWork(bk1, pkt[w].objs)
           bk3 == IF vmRoots.tpinning = {} THEN bk2
                  ELSE CreateProcessTPinningRootsWork(bk2, SetToSeq(vmRoots.tpinning))
       IN buckets' = bk3
    /\ scanned_stacks' = scanned_stacks + 1
    /\ gc_status' = "GcProper"
    /\ pkt' = [pkt EXCEPT ![w] = NoPacket]
    /\ UNCHANGED <<never_move_objects, weakVars, heapVars, spaceVars, workerVars, gcVars,
                   ghostVars, holeVars, scanned, postScanned, graphVars, stage,
                   epilogueCounter, flushes, gcCount, vmRoots, poolVars>>

\* ScanMutatorRoots::do_work: the VM reports the roots of the mutator, its
\* root slots and the objects its stack pins, to the factory; the packet
\* that scanned the last stack sets the status GcProper.
ScanMutatorRoots(w) ==
    /\ pkt[w].type = "ScanMutatorRoots"
    /\ LET bk1 == IF pkt[w].slots = <<>> THEN buckets
                  ELSE CreateProcessRootsWork(buckets, pkt[w].slots)
           bk2 == IF pkt[w].objs = <<>> THEN bk1
                  ELSE CreateProcessPinningRootsWork(bk1, pkt[w].objs)
           bk3 == IF vmRoots.tpinning = {} THEN bk2
                  ELSE CreateProcessTPinningRootsWork(bk2, SetToSeq(vmRoots.tpinning))
       IN buckets' = bk3
    /\ scanned_stacks' = scanned_stacks + 1
    /\ gc_status' = IF InformStackScanned(NumberOfMutators) THEN "GcProper" ELSE gc_status
    /\ pkt' = [pkt EXCEPT ![w] = NoPacket]
    /\ UNCHANGED <<never_move_objects, weakVars, heapVars, spaceVars, workerVars, gcVars,
                   ghostVars, holeVars, scanned, postScanned, graphVars, stage,
                   epilogueCounter, flushes, gcCount, vmRoots, poolVars>>

\* ProcessEdgesWork::process_slot, up to the call of trace_object.
ProcessSlot(w) ==
    /\ pkt[w].type = "PE"
    /\ wk[w].pc = "idle"
    /\ pkt[w].i <= Len(pkt[w].slots)
    /\ LET object == SlotLoad(pkt[w].slots[pkt[w].i]) IN
         IF object = NoAddr
         THEN /\ pkt' = [pkt EXCEPT ![w].i = @ + 1]
              /\ UNCHANGED <<wk, failed>>
         ELSE /\ TraceObject(w, object, KindOf(pkt[w].pe))
              /\ pkt' = pkt
    /\ UNCHANGED <<mmtkVars, heapVars, spaceVars, nodes, copyCursor, gcVars, done, copies, holeVars, scanned, postScanned,
                   graphVars, buckets, stage, epilogueCounter, flushes, gcCount, vmRoots, poolVars>>

\* ProcessEdgesWork::process_slot, after trace_object returned: store the
\* new reference if the trace may move objects and it differs.
ProcessSlotStore(w) ==
    /\ pkt[w].type = "PE"
    /\ wk[w].pc = "ret"
    /\ IF MayMoveObjects(KindOf(pkt[w].pe)) /\ wk[w].ret # wk[w].obj
       THEN SlotStore(pkt[w].slots[pkt[w].i], wk[w].ret)
       ELSE UNCHANGED <<field, rootSlot>>
    /\ done' = [done EXCEPT ![w] = Append(@, wk[w])]
    /\ wk' = [wk EXCEPT ![w] = IdleCall]
    /\ pkt' = [pkt EXCEPT ![w].i = @ + 1]
    /\ UNCHANGED <<mmtkVars, heapVars, spaceVars, nodes, copyCursor, gcVars, copies, failed, holeVars, scanned, postScanned,
                   buckets, stage, epilogueCounter, flushes, gcCount, vmRoots, poolVars>>

\* A flush that scans the nodes without popping them from the queue.
ProcessEdgesFlushKeepingNodes(w) ==
    /\ pkt[w].type = "PE"
    /\ wk[w].pc = "idle"
    /\ pkt[w].i > Len(pkt[w].slots)
    /\ IF nodes[w] # <<>>
       THEN /\ DoWorkCommon(pkt[w].pe, nodes[w], pkt[w].bucket)
            /\ pkt' = [pkt EXCEPT ![w] = WithTracer(pkt[w].pe, nodes[w], pkt[w].bucket)]
       ELSE /\ UNCHANGED <<buckets, lineMark, scanned, postScanned>>
            /\ pkt' = [pkt EXCEPT ![w] = NoPacket]
    /\ nodes' = nodes
    /\ UNCHANGED <<mmtkVars, mark, fwdBits, fwdPtr, pinned, blockState, defragSource, holes,
                   spaceVars, wk, copyCursor, gcVars, ghostVars, holeVars, graphVars,
                   stage, epilogueCounter, flushes, gcCount, vmRoots, poolVars>>

\* ProcessEdgesWork::do_work, after process_slots: flush the nodes into a
\* scan packet, which the same worker runs at once.
ProcessEdgesFlush(w) ==
    /\ pkt[w].type = "PE"
    /\ wk[w].pc = "idle"
    /\ pkt[w].i > Len(pkt[w].slots)
    /\ IF nodes[w] # <<>>
       THEN /\ DoWorkCommon(pkt[w].pe, nodes[w], pkt[w].bucket)
            /\ pkt' = [pkt EXCEPT ![w] = WithTracer(pkt[w].pe, nodes[w], pkt[w].bucket)]
       ELSE /\ UNCHANGED <<buckets, lineMark, scanned, postScanned>>
            /\ pkt' = [pkt EXCEPT ![w] = NoPacket]
    /\ nodes' = [nodes EXCEPT ![w] = <<>>]
    /\ UNCHANGED <<mmtkVars, mark, fwdBits, fwdPtr, pinned, blockState, defragSource, holes,
                   spaceVars, wk, copyCursor, gcVars, ghostVars, holeVars, graphVars,
                   stage, epilogueCounter, flushes, gcCount, vmRoots, poolVars>>

\* ScanObjects::do_work and PlanScanObjects::do_work
ScanObjects(w) ==
    /\ pkt[w].type = "SO"
    /\ pkt[w].scan_later = <<>>
    /\ DoWorkCommon(pkt[w].pe, pkt[w].objs, pkt[w].bucket)
    /\ pkt' = [pkt EXCEPT ![w] = WithTracer(pkt[w].pe, pkt[w].objs, pkt[w].bucket)]
    /\ UNCHANGED <<mmtkVars, mark, fwdBits, fwdPtr, pinned, blockState, defragSource, holes,
                   spaceVars, workerVars, gcVars, ghostVars, holeVars, graphVars,
                   stage, epilogueCounter, flushes, gcCount, vmRoots, poolVars>>

\* do_work_common, the closure given to with_tracer:
\* scan_object_and_trace_edges of the next postponed object, up to the
\* tracer's call of trace_object on the object its field refers to; an
\* object without a reference is scanned at once.
ScanObjectAndTraceEdges(w) ==
    /\ pkt[w].type = "SO"
    /\ pkt[w].scan_later # <<>>
    /\ wk[w].pc = "idle"
    /\ pkt[w].i <= Len(pkt[w].scan_later)
    /\ LET object == pkt[w].scan_later[pkt[w].i] IN
         IF field[object] = NoAddr
         THEN /\ pkt' = [pkt EXCEPT ![w].i = @ + 1]
              /\ lineMark' = PostScanObjects(lineMark, <<object>>)
              /\ scanned' = CountScans(scanned, <<object>>)
              /\ postScanned' = CountScans(postScanned, <<object>>)
              /\ UNCHANGED <<wk, failed>>
         ELSE /\ TraceObject(w, field[object], KindOf(pkt[w].pe))
              /\ UNCHANGED <<pkt, lineMark, scanned, postScanned>>
    /\ UNCHANGED <<mmtkVars, mark, fwdBits, fwdPtr, pinned, blockState, defragSource, holes,
                   spaceVars, nodes, copyCursor, gcVars, done, copies, holeVars,
                   graphVars, buckets, stage, epilogueCounter, flushes, gcCount, vmRoots,
                   poolVars>>

\* ProcessEdgesWorkTracer::trace_object, after the trace_object of its
\* ProcessEdgesWork returned: flush_if_full, and the result goes to the VM,
\* which stores it in the field; then post_scan_object.
TracerTraceObject(w) ==
    /\ pkt[w].type = "SO"
    /\ wk[w].pc = "ret"
    /\ LET object == pkt[w].scan_later[pkt[w].i]
           is_full == Len(nodes[w]) >= CAPACITY
       IN /\ buckets' = IF is_full
                         THEN TracerFlush(buckets, pkt[w].pe, nodes[w], pkt[w].bucket)
                         ELSE buckets
          /\ nodes' = [nodes EXCEPT ![w] = IF is_full THEN <<>> ELSE @]
          /\ field' = [field EXCEPT ![object] = wk[w].ret]
          /\ lineMark' = PostScanObjects(lineMark, <<object>>)
          /\ scanned' = CountScans(scanned, <<object>>)
          /\ postScanned' = CountScans(postScanned, <<object>>)
    /\ done' = [done EXCEPT ![w] = Append(@, wk[w])]
    /\ wk' = [wk EXCEPT ![w] = IdleCall]
    /\ pkt' = [pkt EXCEPT ![w].i = @ + 1]
    /\ UNCHANGED <<mmtkVars, mark, fwdBits, fwdPtr, pinned, blockState, defragSource, holes,
                   spaceVars, copyCursor, gcVars, copies, failed, holeVars, rootSlot,
                   stage, epilogueCounter, flushes, gcCount, vmRoots, poolVars>>

\* A with_tracer that drops the nodes still queued when the closure returns.
WithTracerWithoutFinalFlush(w) ==
    /\ pkt[w].type = "SO"
    /\ pkt[w].scan_later # <<>>
    /\ wk[w].pc = "idle"
    /\ pkt[w].i > Len(pkt[w].scan_later)
    /\ buckets' = buckets
    /\ nodes' = [nodes EXCEPT ![w] = <<>>]
    /\ pkt' = [pkt EXCEPT ![w] = NoPacket]
    /\ UNCHANGED <<mmtkVars, heapVars, spaceVars, wk, copyCursor, gcVars, ghostVars, holeVars, scanned, postScanned,
                   graphVars, stage, epilogueCounter, flushes, gcCount, vmRoots, poolVars>>

\* with_tracer, after the closure returned: flush_if_not_empty, and the scan
\* packet ends.
FlushIfNotEmpty(w) ==
    /\ pkt[w].type = "SO"
    /\ pkt[w].scan_later # <<>>
    /\ wk[w].pc = "idle"
    /\ pkt[w].i > Len(pkt[w].scan_later)
    /\ buckets' = IF nodes[w] # <<>>
                  THEN TracerFlush(buckets, pkt[w].pe, nodes[w], pkt[w].bucket)
                  ELSE buckets
    /\ nodes' = [nodes EXCEPT ![w] = <<>>]
    /\ pkt' = [pkt EXCEPT ![w] = NoPacket]
    /\ UNCHANGED <<mmtkVars, heapVars, spaceVars, wk, copyCursor, gcVars, ghostVars, holeVars, scanned, postScanned,
                   graphVars, stage, epilogueCounter, flushes, gcCount, vmRoots, poolVars>>

\* The packet that calls process_weak_refs, with the plan's
\* DefaultProcessEdges.
WeakRefsPacket == Packet("VMProcessWeakRefs", "none", "DPE", <<>>, <<>>, "VMRefClosure")

\* VMProcessWeakRefs::do_work, up to the call the VM's process_weak_refs
\* makes of its tracer's trace_object: the VM retains the referent of one
\* of its weak references, or none.
ProcessWeakRefs(w) ==
    /\ pkt[w].type = "VMProcessWeakRefs"
    /\ wk[w].pc = "idle"
    /\ pkt[w].i = 1
    /\ \E object \in vmRoots.weak \cup {NoAddr} :
         IF object = NoAddr
         THEN UNCHANGED <<wk, failed>>
         ELSE TraceObject(w, object, KindOf(pkt[w].pe))
    /\ pkt' = [pkt EXCEPT ![w].i = 2]
    /\ UNCHANGED <<mmtkVars, heapVars, spaceVars, nodes, copyCursor, gcVars, done, copies,
                   holeVars, scanned, postScanned, graphVars, buckets, stage, epilogueCounter,
                   flushes, gcCount, vmRoots, poolVars>>

\* A VMProcessWeakRefs that never sets a sentinel.
VMProcessWeakRefsNeverRearming(w) ==
    /\ pkt[w].type = "VMProcessWeakRefs"
    /\ wk[w].pc \in {"idle", "ret"}
    /\ pkt[w].i = 2
    /\ buckets' = IF nodes[w] # <<>>
                  THEN TracerFlush(buckets, pkt[w].pe, nodes[w], pkt[w].bucket)
                  ELSE buckets
    /\ nodes' = [nodes EXCEPT ![w] = <<>>]
    /\ \E need_to_repeat \in {r \in BOOLEAN : r => Len(weakRounds) + 1 < MaxRounds} :
         /\ sentinel' = sentinel
         /\ weakRounds' = Append(weakRounds, need_to_repeat)
    /\ done' = IF wk[w].pc = "ret" THEN [done EXCEPT ![w] = Append(@, wk[w])] ELSE done
    /\ wk' = [wk EXCEPT ![w] = IdleCall]
    /\ pkt' = [pkt EXCEPT ![w] = NoPacket]
    /\ UNCHANGED <<never_move_objects, statusVars, heapVars, spaceVars, copyCursor, gcVars,
                   copies, failed, holeVars, scanned, postScanned, graphVars, stage,
                   epilogueCounter, flushes, gcCount, vmRoots, poolVars>>

\* VMProcessWeakRefs::do_work, from the return of the tracer's trace_object:
\* with_tracer flushes the queued nodes into the VMRefClosure bucket,
\* process_weak_refs returns need_to_repeat, and the packet sets a new
\* instance of itself as the sentinel of the bucket if it is true.
VMProcessWeakRefs(w) ==
    /\ pkt[w].type = "VMProcessWeakRefs"
    /\ wk[w].pc \in {"idle", "ret"}
    /\ pkt[w].i = 2
    /\ buckets' = IF nodes[w] # <<>>
                  THEN TracerFlush(buckets, pkt[w].pe, nodes[w], pkt[w].bucket)
                  ELSE buckets
    /\ nodes' = [nodes EXCEPT ![w] = <<>>]
    /\ \E need_to_repeat \in {r \in BOOLEAN : r => Len(weakRounds) + 1 < MaxRounds} :
         /\ sentinel' = IF need_to_repeat THEN WeakRefsPacket ELSE sentinel
         /\ weakRounds' = Append(weakRounds, need_to_repeat)
    /\ done' = IF wk[w].pc = "ret" THEN [done EXCEPT ![w] = Append(@, wk[w])] ELSE done
    /\ wk' = [wk EXCEPT ![w] = IdleCall]
    /\ pkt' = [pkt EXCEPT ![w] = NoPacket]
    /\ UNCHANGED <<never_move_objects, statusVars, heapVars, spaceVars, copyCursor, gcVars,
                   copies, failed, holeVars, scanned, postScanned, graphVars, stage,
                   epilogueCounter, flushes, gcCount, vmRoots, poolVars>>

\* ProcessRootNode::do_work: trace the next root with R2OPE.
RootNodeTrace(w) ==
    /\ pkt[w].type = "PRN"
    /\ wk[w].pc = "idle"
    /\ pkt[w].i <= Len(pkt[w].objs)
    /\ TraceObject(w, pkt[w].objs[pkt[w].i], KindOf(pkt[w].r2ope))
    /\ UNCHANGED <<mmtkVars, heapVars, spaceVars, nodes, copyCursor, gcVars, done, copies, holeVars, scanned, postScanned,
                   graphVars, schedVars>>

\* ProcessRootNode::do_work: trace_object returned; assert the root did
\* not move.
RootNodeCheck(w) ==
    /\ pkt[w].type = "PRN"
    /\ wk[w].pc = "ret"
    /\ failed' = IF wk[w].ret = wk[w].obj THEN failed
                 ELSE failed \cup {"root_object_moved"}
    /\ done' = [done EXCEPT ![w] = Append(@, wk[w])]
    /\ wk' = [wk EXCEPT ![w] = IdleCall]
    /\ pkt' = [pkt EXCEPT ![w].i = @ + 1]
    /\ UNCHANGED <<mmtkVars, heapVars, spaceVars, nodes, copyCursor, gcVars, copies, holeVars, scanned, postScanned,
                   graphVars, buckets, stage, epilogueCounter, flushes, gcCount, vmRoots, poolVars>>

\* A ProcessRootNode that hands every root it was given to the scan packet.
RootNodeFinishScanningAllRoots(w) ==
    /\ pkt[w].type = "PRN"
    /\ wk[w].pc = "idle"
    /\ pkt[w].i > Len(pkt[w].objs)
    /\ buckets' = AddPacket(buckets, pkt[w].bucket,
                            Packet("SO", "none", pkt[w].pe, <<>>, pkt[w].objs, pkt[w].bucket))
    /\ nodes' = [nodes EXCEPT ![w] = <<>>]
    /\ pkt' = [pkt EXCEPT ![w] = NoPacket]
    /\ UNCHANGED <<mmtkVars, heapVars, spaceVars, wk, copyCursor, gcVars, ghostVars, holeVars, scanned, postScanned,
                   graphVars, stage, epilogueCounter, flushes, gcCount, vmRoots, poolVars>>

\* ProcessRootNode::do_work, end: the roots visited for the first time go
\* into a scan packet of O2OPE, added to the bucket of the packet.
RootNodeFinish(w) ==
    /\ pkt[w].type = "PRN"
    /\ wk[w].pc = "idle"
    /\ pkt[w].i > Len(pkt[w].objs)
    /\ buckets' = AddPacket(buckets, pkt[w].bucket,
                            Packet("SO", "none", pkt[w].pe, <<>>, nodes[w], pkt[w].bucket))
    /\ nodes' = [nodes EXCEPT ![w] = <<>>]
    /\ pkt' = [pkt EXCEPT ![w] = NoPacket]
    /\ UNCHANGED <<mmtkVars, heapVars, spaceVars, wk, copyCursor, gcVars, ghostVars, holeVars, scanned, postScanned,
                   graphVars, stage, epilogueCounter, flushes, gcCount, vmRoots, poolVars>>

\* ImmixSpace::generate_sweep_tasks: one SweepChunk packet per allocated
\* chunk.
GenerateSweepTasks ==
    {ChunkPacket("SweepChunk", c, NoAddr, "Release") : c \in {x \in Chunks : chunkAllocated[x]}}

\* A release that leaves the blocks of the last collection in the pool.
ReleaseKeepingReusableBlocks(w) ==
    /\ pkt[w].type = "Release"
    /\ line_unavail_state' = IF ~nurseryGC /\ ~BLOCK_ONLY THEN line_mark_state
                             ELSE line_unavail_state
    /\ buckets' = [buckets EXCEPT !["Release"] = @ \cup GenerateSweepTasks]
    /\ epilogueCounter' = Cardinality(GenerateSweepTasks)
    /\ reusable_blocks' = reusable_blocks
    /\ lines_consumed' = 0
    /\ flushes' = 0
    /\ pkt' = [pkt EXCEPT ![w] = NoPacket]
    /\ UNCHANGED <<mmtkVars, heapVars, line_mark_state, in_defrag, defragAvail, defragExhausted,
                   chunkAllocated, workerVars, gcVars, ghostVars, holeVars, scanned, postScanned, graphVars,
                   stage, gcCount, vmRoots, defrag_spill_threshold, lastAlloc>>

\* Release::do_work, which calls ImmixSpace::release(major_gc) through the
\* plan.
Release(w) ==
    /\ pkt[w].type = "Release"
    /\ line_unavail_state' = IF ~nurseryGC /\ ~BLOCK_ONLY THEN line_mark_state
                             ELSE line_unavail_state
    /\ buckets' = [buckets EXCEPT !["Release"] = @ \cup GenerateSweepTasks]
    /\ epilogueCounter' = Cardinality(GenerateSweepTasks)
    /\ reusable_blocks' = IF ~BLOCK_ONLY THEN {} ELSE reusable_blocks
    /\ lines_consumed' = 0
    /\ flushes' = 0
    /\ pkt' = [pkt EXCEPT ![w] = NoPacket]
    /\ UNCHANGED <<mmtkVars, heapVars, line_mark_state, in_defrag, defragAvail, defragExhausted,
                   chunkAllocated, workerVars, gcVars, ghostVars, holeVars, scanned, postScanned, graphVars,
                   stage, gcCount, vmRoots, defrag_spill_threshold, lastAlloc>>

\* Plan::current_gc_may_move_object
IsMovingGC == in_defrag \/ nurseryGC

\* Block::sweep: the lines of the block that are live.
LiveLines(b) == {l \in BlockLines(b) : lineMark[l] = line_mark_state}

\* Block::sweep: the holes of the block, the maximal runs of lines that are
\* not live.
Holes(b) ==
    Cardinality({l \in BlockLines(b) :
                   /\ l \notin LiveLines(b)
                   /\ (l = BlockStart(b) \/ (l - 1) \in LiveLines(b))})

\* Block::sweep: the state the sweep leaves the block in.
SweepState(b) ==
    IF LiveLines(b) = {} THEN Unallocated
    ELSE IF Cardinality(LiveLines(b)) = LINES THEN Marked
    ELSE Reusable(Cardinality(LiveLines(b)))

\* A SweepChunk that sweeps without clearing the side forwarding bits.
SweepChunkKeepingForwardingBits(w) ==
    /\ pkt[w].type = "SweepChunk"
    /\ pkt[w].i = 1
    /\ failed' = IF chunkAllocated[pkt[w].chunk] THEN failed
                 ELSE failed \cup {"sweep_unallocated_chunk"}
    /\ IF ~chunkAllocated[pkt[w].chunk]
       THEN /\ pkt' = [pkt EXCEPT ![w].i = 3]
            /\ UNCHANGED <<fwdBits, blockState, holes, defragSource, reusable_blocks,
                           chunkAllocated>>
       ELSE LET allocated == {b \in ChunkBlocks(pkt[w].chunk) : blockState[b] # Unallocated}
                live == {b \in allocated : LiveLines(b) # {}}
            IN /\ fwdBits' = fwdBits
               /\ blockState' = [b \in Blocks |->
                                   IF b \in allocated THEN SweepState(b) ELSE blockState[b]]
               /\ holes' = [b \in Blocks |-> IF b \in live THEN Holes(b) ELSE holes[b]]
               /\ defragSource' = [b \in Blocks |-> IF b \in live THEN FALSE ELSE defragSource[b]]
               /\ reusable_blocks' = reusable_blocks
                                       \cup {b \in live : SweepState(b).tag = "Reusable"}
               /\ chunkAllocated' = [chunkAllocated EXCEPT ![pkt[w].chunk] = (live # {})]
               /\ pkt' = [pkt EXCEPT ![w].i = 2]
    /\ UNCHANGED <<mmtkVars, mark, fwdPtr, pinned, lineMark, line_mark_state, line_unavail_state,
                   lines_consumed, in_defrag, defragAvail, defragExhausted, workerVars,
                   gcVars, done, copies, holeVars, scanned, postScanned, graphVars, buckets, stage, gcCount, vmRoots,
                   defrag_spill_threshold, lastAlloc, epilogueCounter, flushes>>

\* SweepChunk::do_work, up to the call of finish_one_work_packet.  The
\* packet asserts first that the chunk map holds its chunk as allocated.
SweepChunk(w) ==
    /\ pkt[w].type = "SweepChunk"
    /\ pkt[w].i = 1
    /\ failed' = IF chunkAllocated[pkt[w].chunk] THEN failed
                 ELSE failed \cup {"sweep_unallocated_chunk"}
    /\ IF ~chunkAllocated[pkt[w].chunk]
       THEN /\ pkt' = [pkt EXCEPT ![w].i = 3]
            /\ UNCHANGED <<fwdBits, blockState, holes, defragSource, reusable_blocks,
                           chunkAllocated>>
       ELSE LET allocated == {b \in ChunkBlocks(pkt[w].chunk) : blockState[b] # Unallocated}
                live == {b \in allocated : LiveLines(b) # {}}
                objects_may_move(b) == IF in_defrag THEN defragSource[b] ELSE TRUE
            IN /\ fwdBits' = [a \in Addrs |->
                                IF BlockOf(a) \in allocated /\ IsMovingGC
                                   /\ objects_may_move(BlockOf(a))
                                THEN "NOT" ELSE fwdBits[a]]
               /\ blockState' = [b \in Blocks |->
                                   IF b \in allocated THEN SweepState(b) ELSE blockState[b]]
               /\ holes' = [b \in Blocks |-> IF b \in live THEN Holes(b) ELSE holes[b]]
               /\ defragSource' = [b \in Blocks |-> IF b \in live THEN FALSE ELSE defragSource[b]]
               /\ reusable_blocks' = reusable_blocks
                                       \cup {b \in live : SweepState(b).tag = "Reusable"}
               /\ chunkAllocated' = [chunkAllocated EXCEPT ![pkt[w].chunk] = (live # {})]
               /\ pkt' = [pkt EXCEPT ![w].i = 2]
    /\ UNCHANGED <<mmtkVars, mark, fwdPtr, pinned, lineMark, line_mark_state, line_unavail_state,
                   lines_consumed, in_defrag, defragAvail, defragExhausted, workerVars,
                   gcVars, done, copies, holeVars, scanned, postScanned, graphVars, buckets, stage, gcCount, vmRoots,
                   defrag_spill_threshold, lastAlloc, epilogueCounter, flushes>>

\* A finish_one_work_packet that flushes whenever it is called.
FlushesAlways(counter) == TRUE

\* FlushPageResource::finish_one_work_packet: whether this call, which found
\* `counter` packets unfinished, flushes the page resource.
FlushesPageResource(counter) == counter = 1

\* A finish_one_work_packet that leaves the counter alone.
FinishOneWorkPacketKeepingCounter(w) ==
    /\ pkt[w].type = "SweepChunk"
    /\ pkt[w].i = 2
    /\ epilogueCounter' = epilogueCounter
    /\ flushes' = IF FlushesPageResource(epilogueCounter) THEN flushes + 1 ELSE flushes
    /\ pkt' = [pkt EXCEPT ![w] = NoPacket]
    /\ UNCHANGED <<mmtkVars, heapVars, spaceVars, workerVars, gcVars, ghostVars, holeVars, scanned, postScanned,
                   graphVars, buckets, stage, gcCount, vmRoots, poolVars>>

\* SweepChunk::do_work, end: epilogue.finish_one_work_packet()
FinishOneWorkPacket(w) ==
    /\ pkt[w].type = "SweepChunk"
    /\ pkt[w].i = 2
    /\ epilogueCounter' = epilogueCounter - 1
    /\ flushes' = IF FlushesPageResource(epilogueCounter) THEN flushes + 1 ELSE flushes
    /\ pkt' = [pkt EXCEPT ![w] = NoPacket]
    /\ UNCHANGED <<mmtkVars, heapVars, spaceVars, workerVars, gcVars, ghostVars, holeVars, scanned, postScanned, graphVars,
                   buckets, stage, gcCount, vmRoots, poolVars>>

\* The open bucket has drained and every worker is parked: the scheduler
\* schedules the sentinel of the bucket if it has one, and opens the next
\* stage otherwise.
StageIndex(st) == CHOOSE i \in 1 .. Len(StageOrder) : StageOrder[i] = st
OpenNextStage ==
    /\ stage # "Final"
    /\ buckets[stage] = {}
    /\ \A w \in Workers : pkt[w].type = "none"
    /\ IF stage = "VMRefClosure" /\ sentinel # NoPacket
       THEN /\ buckets' = AddPacket(buckets, stage, sentinel)
            /\ sentinel' = NoPacket
            /\ stage' = stage
       ELSE /\ stage' = StageOrder[StageIndex(stage) + 1]
            /\ UNCHANGED <<buckets, sentinel>>
    /\ UNCHANGED <<never_move_objects, weakRounds, statusVars, heapVars, spaceVars, workerVars,
                   gcVars, ghostVars, holeVars, scanned, postScanned, graphVars, pkt,
                   epilogueCounter, flushes, gcCount, vmRoots, poolVars>>

\* The objects reachable from the set S of objects.
RECURSIVE ReachableFrom(_)
ReachableFrom(S) ==
    LET N == S \cup ({field[o] : o \in S} \ {NoAddr})
    IN IF N = S THEN S ELSE ReachableFrom(N)

\* A major collection after its Prepare packets ran: no object is marked,
\* every allocated block is Unmarked, the mutators are stopped and their
\* roots are about to be scanned.
InitGC ==
    /\ nurseryGC = FALSE
    /\ in_defrag \in BOOLEAN
    /\ dpeKind = (IF in_defrag THEN TRACE_KIND_DEFRAG ELSE TRACE_KIND_FAST)
    /\ \E P \in SUBSET {BlockStart(0)} : pinned = [a \in Addrs |-> a \in P]
    /\ \E S \in (IF in_defrag THEN SUBSET MutBlocks ELSE {{}}) :
         defragSource = [b \in Blocks |-> b \in S]
    /\ mark = [a \in Addrs |-> UNMARKED_STATE]
    /\ blockState = [b \in Blocks |-> IF b \in MutBlocks THEN Unmarked ELSE Unallocated]
    /\ lineMark = [l \in Addrs |-> 0]
    /\ fwdBits = [a \in Addrs |-> "NOT"]
    /\ fwdPtr = [a \in Addrs |-> NoAddr]
    /\ holes = [b \in Blocks |-> 0]
    /\ line_mark_state = RESET_MARK_STATE + 1
    /\ line_unavail_state = RESET_MARK_STATE
    /\ lines_consumed = Cardinality(MutBlocks) * LINES
    /\ defragExhausted \in (IF in_defrag THEN BOOLEAN ELSE {FALSE})
    /\ defragAvail \in (IF in_defrag /\ ~defragExhausted THEN 1 .. MaxReserve ELSE {0})
    /\ chunkAllocated = [c \in Chunks |-> ChunkBlocks(c) \cap MutBlocks # {}]
    /\ wk = [w \in Workers |-> IdleCall]
    /\ nodes = [w \in Workers |-> <<>>]
    /\ copyCursor = [w \in Workers |-> NoAddr]
    /\ known = {}
    /\ closureOpen = FALSE
    /\ done = [w \in Workers |-> <<>>]
    /\ copies = [a \in Addrs |-> 0]
    /\ failed = {}
    /\ holeStart = NoAddr
    /\ scanned = [a \in Addrs |-> 0]
    /\ postScanned = [a \in Addrs |-> 0]
    /\ never_move_objects = NEVER_MOVE_OBJECTS
    /\ sentinel = NoPacket
    /\ weakRounds = <<>>
    /\ gc_status = "GcPrepare"
    /\ scanned_stacks = 0
    /\ holeRes = NoHole
    /\ \E f \in [OrigObjs -> OrigObjs \cup {NoAddr}] :
         /\ \A o \in OrigObjs : f[o] # o
         /\ field = [a \in Addrs |-> IF a \in OrigObjs THEN f[a] ELSE NoAddr]
    /\ rootSlot \in [RootIds -> OrigObjs \cup {NoAddr}]
    /\ \E o \in OrigObjs : \E k \in {"none", "pinning", "tpinning"} :
         vmRoots = [pinning |-> IF k = "pinning" THEN {o} ELSE {},
                    tpinning |-> IF k = "tpinning" THEN {o} ELSE {},
                    reach |-> ReachableFrom(({rootSlot[r] : r \in RootIds} \ {NoAddr})
                                              \cup (IF k = "none" THEN {} ELSE {o})),
                    treach |-> ReachableFrom(IF k = "tpinning" THEN {o} ELSE {}),
                    node_scan |-> {}, weak |-> {},
                    mutators |-> <<Mutator(RootSlots,
                                           IF k = "pinning" THEN <<o>> ELSE <<>>)>>]
    /\ buckets = [st \in Stages |->
                    IF st = "Prepare"
                    THEN ScanMutatorRootsPackets
                    ELSE IF st = "Release"
                    THEN {Packet("Release", "none", "none", <<>>, <<>>, "Release")}
                    ELSE {}]
    /\ stage = "Prepare"
    /\ pkt = [w \in Workers |-> NoPacket]
    /\ epilogueCounter = 0
    /\ flushes = 0
    /\ reusable_blocks = {}
    /\ defrag_spill_threshold = 0
    /\ lastAlloc = NoAlloc
    /\ gcCount = 1

NextGC ==
    \/ \E w \in Workers : GetPacket(w)
    \/ \E w \in Workers : ScanMutatorRoots(w)
    \/ \E w \in Workers : ProcessSlot(w)
    \/ \E w \in Workers : ProcessSlotStore(w)
    \/ \E w \in Workers : ProcessEdgesFlush(w)
    \/ \E w \in Workers : ScanObjects(w)
    \/ \E w \in Workers : RootNodeTrace(w)
    \/ \E w \in Workers : RootNodeCheck(w)
    \/ \E w \in Workers : RootNodeFinish(w)
    \/ \E w \in Workers : TraceStep(w)
    \/ \E w \in Workers : Release(w)
    \/ \E w \in Workers : SweepChunk(w)
    \/ \E w \in Workers : FinishOneWorkPacket(w)
    \/ OpenNextStage

SpecGC == InitGC /\ [][NextGC]_vars

(***************************************************************************)
(* The trace of one major collection without defragmentation, in a heap     *)
(* whose VM scans some objects by node-enqueuing, with two mutators whose   *)
(* stacks pin objects.  No block is a defrag source, so every trace_object  *)
(* dispatches to trace_object_without_moving.                               *)
(***************************************************************************)
\* Two objects in each block of the mutators: the first is pinned by the
\* stacks and refers to the second.  The second object of block 0 refers
\* back to the first and is held in the root slots; the VM scans the stack
\* objects and the second object of block 1, or the first stack object
\* only, by node-enqueuing.
StackObjs == {BlockStart(b) : b \in MutBlocks}
ChildOf(o) == o + 2

\* The mutators: the first has the root slots and pins every stack object,
\* the second pins them again, one of them twice.
Mutators(again) ==
    <<Mutator(RootSlots, SetToSeq(StackObjs))>>
    \o (IF again = <<>> THEN <<>> ELSE <<Mutator(<<>>, again)>>)

InitScan ==
    /\ nurseryGC = FALSE
    /\ in_defrag = FALSE
    /\ dpeKind = (IF in_defrag THEN TRACE_KIND_DEFRAG ELSE TRACE_KIND_FAST)
    /\ pinned = [a \in Addrs |-> FALSE]
    /\ defragSource = [b \in Blocks |-> in_defrag /\ b \in MutBlocks]
    /\ mark = [a \in Addrs |-> UNMARKED_STATE]
    /\ blockState = [b \in Blocks |-> IF b \in MutBlocks THEN Unmarked ELSE Unallocated]
    /\ lineMark = [l \in Addrs |-> 0]
    /\ fwdBits = [a \in Addrs |-> "NOT"]
    /\ fwdPtr = [a \in Addrs |-> NoAddr]
    /\ holes = [b \in Blocks |-> 0]
    /\ line_mark_state = RESET_MARK_STATE + 1
    /\ line_unavail_state = RESET_MARK_STATE
    /\ lines_consumed = Cardinality(MutBlocks) * LINES
    /\ defragExhausted = FALSE
    /\ defragAvail = 0
    /\ chunkAllocated = [c \in Chunks |-> ChunkBlocks(c) \cap MutBlocks # {}]
    /\ wk = [w \in Workers |-> IdleCall]
    /\ nodes = [w \in Workers |-> <<>>]
    /\ copyCursor = [w \in Workers |-> NoAddr]
    /\ known = {}
    /\ closureOpen = FALSE
    /\ done = [w \in Workers |-> <<>>]
    /\ copies = [a \in Addrs |-> 0]
    /\ failed = {}
    /\ holeStart = NoAddr
    /\ scanned = [a \in Addrs |-> 0]
    /\ postScanned = [a \in Addrs |-> 0]
    /\ never_move_objects = NEVER_MOVE_OBJECTS
    /\ sentinel = NoPacket
    /\ weakRounds = <<>>
    /\ gc_status = "GcPrepare"
    /\ scanned_stacks = 0
    /\ holeRes = NoHole
    /\ field = [a \in Addrs |->
                  IF a \in StackObjs THEN ChildOf(a)
                  ELSE IF a = ChildOf(BlockStart(0)) THEN BlockStart(0)
                  ELSE NoAddr]
    /\ rootSlot = [r \in RootIds |-> ChildOf(BlockStart(0))]
    /\ \E again \in {<<>>, <<BlockStart(1), BlockStart(0), BlockStart(1)>>} :
         /\ \E node_scan \in {StackObjs \cup {ChildOf(BlockStart(1))}, {BlockStart(0)}} :
              vmRoots = [pinning |-> StackObjs, tpinning |-> {},
                         reach |-> ReachableFrom(StackObjs), treach |-> {},
                         node_scan |-> node_scan, weak |-> {},
                         mutators |-> Mutators(again)]
         /\ buckets = [st \in Stages |->
                         IF st = "Prepare" THEN ScanMutatorRootsPackets ELSE {}]
    /\ stage = "Prepare"
    /\ pkt = [w \in Workers |-> NoPacket]
    /\ epilogueCounter = 0
    /\ flushes = 0
    /\ reusable_blocks = {}
    /\ defrag_spill_threshold = 0
    /\ lastAlloc = NoAlloc
    /\ gcCount = 1

NextScan ==
    \/ \E w \in Workers : GetPacket(w)
    \/ \E w \in Workers : ScanMutatorRoots(w)
    \/ \E w \in Workers : ProcessSlot(w)
    \/ \E w \in Workers : ProcessSlotStore(w)
    \/ \E w \in Workers : ProcessEdgesFlush(w)
    \/ \E w \in Workers : ScanObjects(w)
    \/ \E w \in Workers : RootNodeTrace(w)
    \/ \E w \in Workers : RootNodeCheck(w)
    \/ \E w \in Workers : RootNodeFinish(w)
    \/ \E w \in Workers : AttemptMarkLoad(w)
    \/ \E w \in Workers : AttemptMarkCAS(w)
    \/ \E w \in Workers : TwmMarkBlockAndLines(w)
    \/ \E w \in Workers : TwmEnqueue(w)
    \/ \E w \in Workers : ScanObjectAndTraceEdges(w)
    \/ \E w \in Workers : TracerTraceObject(w)
    \/ \E w \in Workers : FlushIfNotEmpty(w)
    \/ OpenNextStage

SpecScan == InitScan /\ [][NextScan]_vars

(***************************************************************************)
(* The weak reference processing of one major collection without            *)
(* defragmentation: the closure from the roots has ended, the mutators hold *)
(* no strong reference, and VMProcessWeakRefs is the sentinel of the        *)
(* VMRefClosure bucket.  The VM retains referents of its weak references    *)
(* round by round.                                                          *)
(***************************************************************************)
InitWeak ==
    /\ nurseryGC = FALSE
    /\ in_defrag = FALSE
    /\ dpeKind = TRACE_KIND_FAST
    /\ pinned = [a \in Addrs |-> FALSE]
    /\ defragSource = [b \in Blocks |-> FALSE]
    /\ mark = [a \in Addrs |-> UNMARKED_STATE]
    /\ blockState = [b \in Blocks |-> IF b \in MutBlocks THEN Unmarked ELSE Unallocated]
    /\ lineMark = [l \in Addrs |-> 0]
    /\ fwdBits = [a \in Addrs |-> "NOT"]
    /\ fwdPtr = [a \in Addrs |-> NoAddr]
    /\ holes = [b \in Blocks |-> 0]
    /\ line_mark_state = RESET_MARK_STATE + 1
    /\ line_unavail_state = RESET_MARK_STATE
    /\ lines_consumed = Cardinality(MutBlocks) * LINES
    /\ defragExhausted = FALSE
    /\ defragAvail = 0
    /\ chunkAllocated = [c \in Chunks |-> ChunkBlocks(c) \cap MutBlocks # {}]
    /\ wk = [w \in Workers |-> IdleCall]
    /\ nodes = [w \in Workers |-> <<>>]
    /\ copyCursor = [w \in Workers |-> NoAddr]
    /\ known = {}
    /\ closureOpen = FALSE
    /\ done = [w \in Workers |-> <<>>]
    /\ copies = [a \in Addrs |-> 0]
    /\ failed = {}
    /\ holeStart = NoAddr
    /\ holeRes = NoHole
    /\ scanned = [a \in Addrs |-> 0]
    /\ postScanned = [a \in Addrs |-> 0]
    /\ never_move_objects = NEVER_MOVE_OBJECTS
    /\ sentinel = WeakRefsPacket
    /\ weakRounds = <<>>
    /\ gc_status = "GcProper"
    /\ scanned_stacks = 0
    /\ field = [a \in Addrs |->
                  IF a \in StackObjs THEN ChildOf(a)
                  ELSE IF a = ChildOf(BlockStart(0)) THEN BlockStart(0)
                  ELSE NoAddr]
    /\ rootSlot = [r \in RootIds |-> NoAddr]
    /\ vmRoots = [NoRoots EXCEPT !.weak = StackObjs]
    /\ buckets = [st \in Stages |-> {}]
    /\ stage = "Closure"
    /\ pkt = [w \in Workers |-> NoPacket]
    /\ epilogueCounter = 0
    /\ flushes = 0
    /\ reusable_blocks = {}
    /\ defrag_spill_threshold = 0
    /\ lastAlloc = NoAlloc
    /\ gcCount = 1

\* One step of worker w.
WeakStep(w) ==
    \/ GetPacket(w)
    \/ ProcessWeakRefs(w)
    \/ VMProcessWeakRefs(w)
    \/ ProcessSlot(w)
    \/ ProcessSlotStore(w)
    \/ ProcessEdgesFlush(w)
    \/ ScanObjects(w)
    \/ AttemptMarkLoad(w)
    \/ AttemptMarkCAS(w)
    \/ TwmMarkBlockAndLines(w)
    \/ TwmEnqueue(w)

NextWeak ==
    \/ \E w \in Workers : WeakStep(w)
    \/ OpenNextStage

\* Every worker thread keeps running, and the scheduler opens the next
\* bucket, or schedules its sentinel, when the open one has drained.
SpecWeak ==
    /\ InitWeak
    /\ [][NextWeak]_vars
    /\ \A w \in Workers : WF_vars(WeakStep(w))
    /\ WF_vars(OpenNextStage)

(***************************************************************************)
(* The life cycle of the space: mutators allocate blocks, collections       *)
(* prepare, trace, release and sweep them.                                  *)
(***************************************************************************)
\* The record of a call of get_clean_block or get_reusable_block.
AllocCall(fn, copy, block, before, skipped) ==
    [fn |-> fn, copy |-> copy, block |-> block, before |-> before, skipped |-> skipped,
     n |-> 1 - lastAlloc.n]

\* A get_clean_block that counts the lines before it knows it has a block.
GetCleanBlockCountsFirst(copy) ==
    /\ lines_consumed' = lines_consumed + LINES
    /\ lastAlloc' = AllocCall("get_clean_block", copy, NoAddr, Unallocated, {})
    /\ UNCHANGED <<blockState, defragSource, holes, chunkAllocated, defragAvail,
                   defragExhausted>>

\* ImmixSpace::get_clean_block(tls, copy)
GetCleanBlock(copy) ==
    LET block_address == Acquire IN
      IF block_address = NoAddr
      THEN /\ lastAlloc' = AllocCall("get_clean_block", copy, NoAddr, Unallocated, {})
           /\ UNCHANGED <<blockState, defragSource, holes, chunkAllocated, lines_consumed,
                          defragAvail, defragExhausted>>
      ELSE /\ GetCleanBlockInit(block_address, copy)
           /\ lastAlloc' = AllocCall("get_clean_block", copy, block_address, Unallocated, {})

\* A pop loop that returns defrag sources to the copy allocators too.
SkippedNever(copy, block) == FALSE

\* get_reusable_block: whether the loop skips the block it popped.
Skipped(copy, block) == copy /\ defragSource[block]

\* A lines_delta that counts the unavailable lines of the block down.
LinesDeltaCountingDown(state) == 0 - state.unavailable_lines

\* get_reusable_block: lines_delta, from the state of the popped block.
LinesDelta(state) ==
    IF state.tag = "Reusable" THEN LINES - state.unavailable_lines ELSE LINES

\* ImmixSpace::get_reusable_block(copy).  The pool pops its blocks in any
\* order: the loop discards a set of blocks it skips, then returns a block
\* it does not skip, or None when the pool ran empty.
GetReusableBlock(copy) ==
    IF BLOCK_ONLY
    THEN /\ lastAlloc' = AllocCall("get_reusable_block", copy, NoAddr, Unallocated, {})
         /\ UNCHANGED <<blockState, defragSource, holes, lines_consumed, reusable_blocks,
                        failed>>
    ELSE LET skippable == {b \in reusable_blocks : Skipped(copy, b)} IN
         \/ \E skipped \in SUBSET skippable : \E block \in reusable_blocks \ skippable :
              /\ reusable_blocks' = reusable_blocks \ (skipped \cup {block})
              /\ failed' = IF blockState[block].tag \in {"Reusable", "Unmarked"} THEN failed
                           ELSE failed \cup {"unreachable_block_state"}
              /\ lines_consumed' = lines_consumed + LinesDelta(blockState[block])
              /\ blockState' = [blockState EXCEPT ![block] = BlockInitState(copy)]
              /\ defragSource' = [defragSource EXCEPT ![block] = FALSE]
              /\ holes' = [holes EXCEPT ![block] = 0]
              /\ lastAlloc' = AllocCall("get_reusable_block", copy, block,
                                        blockState[block], skipped)
         \/ /\ skippable = reusable_blocks
            /\ reusable_blocks' = {}
            /\ lastAlloc' = AllocCall("get_reusable_block", copy, NoAddr, Unallocated,
                                      reusable_blocks)
            /\ UNCHANGED <<blockState, defragSource, holes, lines_consumed, failed>>

\* The objects a mutator allocates into a clean block.
MutatorObjects(b) == {BlockStart(b), BlockStart(b) + 2}

\* The mutators ask for a clean block while fewer than MaxMutatorBlocks
\* blocks are in use; a fuller heap makes the plan collect first.  Once the
\* collections of the behaviour, cycles of them, are spent they allocate
\* until the heap has no free block, and ask once more.
MutatorMayAcquire(cycles) ==
    \/ Cardinality(Blocks \ FreeBlocks) < MaxMutatorBlocks
    \/ gcCount = cycles

\* A mutator's allocator asks for a clean block and allocates into it.
MutatorGetCleanBlock(cycles) ==
    /\ stage = "Mutator"
    /\ MutatorMayAcquire(cycles)
    /\ GetCleanBlock(FALSE)
    /\ known' = IF lastAlloc'.block = NoAddr THEN known
                ELSE known \cup MutatorObjects(lastAlloc'.block)
    /\ UNCHANGED <<mmtkVars, mark, fwdBits, fwdPtr, pinned, lineMark, line_mark_state,
                   line_unavail_state, in_defrag, workerVars, nurseryGC, dpeKind,
                   closureOpen, ghostVars, holeVars, scanned, postScanned, graphVars, buckets, stage, pkt,
                   epilogueCounter, flushes, gcCount, vmRoots, reusable_blocks,
                   defrag_spill_threshold>>

\* A mutator's allocator asks for a reusable block and allocates an object
\* into the first hole of it.
MutatorGetReusableBlock ==
    /\ stage = "Mutator"
    /\ GetReusableBlock(FALSE)
    /\ known' = IF lastAlloc'.block = NoAddr THEN known
                ELSE LET hole == GetNextAvailableLines(BlockStart(lastAlloc'.block))
                     IN IF hole = NoHole THEN known ELSE known \cup {hole[1]}
    /\ UNCHANGED <<mmtkVars, mark, fwdBits, fwdPtr, pinned, lineMark, line_mark_state,
                   line_unavail_state, in_defrag, defragAvail, defragExhausted,
                   chunkAllocated, workerVars, nurseryGC, dpeKind, closureOpen, done, copies,
                   holeVars, scanned, postScanned, graphVars, buckets, stage, pkt, epilogueCounter, flushes,
                   gcCount, vmRoots, defrag_spill_threshold>>

\* The copy allocator of a worker asks for a reusable block during a
\* collection that copies: a defrag collection, or a nursery collection of a
\* space that prefers to copy in them.
CopyGetReusableBlock(w) ==
    /\ stage = "Closure"
    /\ in_defrag \/ (nurseryGC /\ ~never_move_objects)
    /\ wk[w].pc = "idle"
    /\ pkt[w].type = "none"
    /\ reusable_blocks # {}
    /\ GetReusableBlock(TRUE)
    /\ UNCHANGED <<mmtkVars, mark, fwdBits, fwdPtr, pinned, lineMark, line_mark_state,
                   line_unavail_state, in_defrag, defragAvail, defragExhausted,
                   chunkAllocated, workerVars, gcVars, done, copies, holeVars, scanned, postScanned, graphVars,
                   buckets, stage, pkt, epilogueCounter, flushes, gcCount, vmRoots,
                   defrag_spill_threshold>>

\* ScheduleCollection::do_work: the status becomes GcPrepare and the plan
\* schedules the collection: it decides whether the collection is a major
\* one and, through decide_whether_to_defrag, whether it defragments, and it
\* adds the StopMutators, Prepare and Release packets.  A behaviour has at
\* most cycles collections.
ScheduleCollection(cycles) ==
    /\ stage = "Mutator"
    /\ gcCount < cycles
    /\ \E major_gc \in BOOLEAN :
         /\ nurseryGC' = ~major_gc
         /\ in_defrag' \in (IF major_gc /\ IsDefragEnabled THEN BOOLEAN ELSE {FALSE})
    /\ dpeKind' = IF in_defrag' THEN TRACE_KIND_DEFRAG ELSE TRACE_KIND_FAST
    /\ gcCount' = gcCount + 1
    /\ gc_status' = "GcPrepare"
    /\ stage' = "Unconstrained"
    /\ buckets' = [st \in Stages |->
                     IF st = "Unconstrained"
                     THEN {Packet("StopMutators", "none", "none", <<>>, <<>>, "Prepare")}
                     ELSE IF st = "Prepare"
                     THEN {Packet("Prepare", "none", "none", <<>>, <<>>, "Prepare")}
                     ELSE IF st = "Release"
                     THEN {Packet("Release", "none", "none", <<>>, <<>>, "Release")}
                     ELSE {}]
    /\ UNCHANGED <<never_move_objects, weakVars, scanned_stacks, heapVars, line_mark_state, line_unavail_state, lines_consumed,
                   defragAvail, defragExhausted, chunkAllocated, workerVars, known,
                   closureOpen, ghostVars, holeVars, scanned, postScanned, graphVars, pkt, epilogueCounter,
                   flushes, vmRoots, poolVars>>

\* A prepare that leaves line_mark_state alone.
LineMarkStateKept(major_gc) == line_mark_state

\* ImmixSpace::prepare: the line mark state it leaves.
LineMarkStateAfterPrepare(major_gc) ==
    IF major_gc /\ ~BLOCK_ONLY THEN NextMarkState(line_mark_state) ELSE line_mark_state

\* Prepare::do_work, which calls ImmixSpace::prepare(major_gc, plan_stats)
\* through the plan.  Defrag::prepare computes the spill threshold and the
\* copy reserve.
Prepare(w) ==
    /\ pkt[w].type = "Prepare"
    /\ LET major_gc == ~nurseryGC IN
         /\ IF major_gc
            THEN /\ \E threshold \in (IF IsDefragEnabled THEN 0 .. MaxHoles
                                      ELSE {defrag_spill_threshold}) :
                      /\ defrag_spill_threshold' = threshold
                      /\ buckets' = [buckets EXCEPT !["Prepare"] = @ \cup
                           {ChunkPacket("PrepareBlockState", c,
                                        IF in_defrag THEN threshold ELSE NoThreshold,
                                        "Prepare") : c \in {x \in Chunks : chunkAllocated[x]}}]
                 /\ \E reserve \in 1 .. MaxReserve :
                      defragAvail' = IF in_defrag THEN reserve ELSE 0
                 /\ defragExhausted' = FALSE
            ELSE UNCHANGED <<defrag_spill_threshold, buckets, defragAvail, defragExhausted>>
         /\ line_mark_state' = LineMarkStateAfterPrepare(major_gc)
    /\ pkt' = [pkt EXCEPT ![w] = NoPacket]
    /\ UNCHANGED <<mmtkVars, heapVars, line_unavail_state, lines_consumed, in_defrag, chunkAllocated,
                   workerVars, gcVars, ghostVars, holeVars, scanned, postScanned, graphVars, stage,
                   epilogueCounter, flushes, gcCount, vmRoots, reusable_blocks, lastAlloc>>

\* PrepareBlockState::do_work for the chunk of the packet
PrepareBlockStateDoWork(w) ==
    /\ pkt[w].type = "PrepareBlockState"
    /\ PrepareBlockState({pkt[w].chunk}, pkt[w].defrag_threshold)
    /\ pkt' = [pkt EXCEPT ![w] = NoPacket]
    /\ UNCHANGED <<mmtkVars, fwdBits, fwdPtr, pinned, holes, lineMark, spaceVars, workerVars, gcVars,
                   ghostVars, holeVars, scanned, postScanned, graphVars, buckets, stage, epilogueCounter, flushes,
                   gcCount, vmRoots, poolVars>>

\* The worker that traces in the life cycle.
Tracer == "w1"

\* ImmixSpace::prefer_copy_on_nursery_gc
PreferCopyOnNurseryGC == ~never_move_objects

\* A packet of the Closure stage traces a reference to an object; other
\* references to it may have been traced before.  A major collection traces
\* through the plan's DefaultProcessEdges, a nursery collection as a sticky
\* plan does: with the opportunistic copy if the space prefers to copy in
\* a nursery collection, without moving otherwise.
CycleTrace(w) ==
    /\ stage = "Closure"
    /\ w = Tracer
    /\ pkt[w].type = "none"
    /\ \E object \in known :
         /\ blockState[BlockOf(object)] # Unallocated
         /\ IF nurseryGC
            THEN /\ IF PreferCopyOnNurseryGC
                    THEN TraceObjectWithOpportunisticCopy(w, object, TRUE)
                    ELSE TraceObjectWithoutMoving(w, object)
                 /\ failed' = failed
            ELSE TraceObject(w, object, dpeKind)
    /\ UNCHANGED <<mmtkVars, heapVars, spaceVars, nodes, copyCursor, gcVars, done, copies, holeVars, scanned, postScanned,
                   graphVars, schedVars>>

\* The call returns: the reference is updated to the returned object; other
\* references may still hold the old address.
CycleReturn(w) ==
    /\ wk[w].pc = "ret"
    /\ known' = known \cup {wk[w].ret}
    /\ wk' = [wk EXCEPT ![w] = IdleCall]
    /\ nodes' = [nodes EXCEPT ![w] = <<>>]
    /\ UNCHANGED <<mmtkVars, heapVars, spaceVars, copyCursor, nurseryGC, dpeKind, closureOpen,
                   ghostVars, holeVars, scanned, postScanned, graphVars, schedVars>>

\* An end_of_gc that leaves the decision of the collection in place.
InDefragKeptByEndOfGC == in_defrag

\* ImmixSpace::end_of_gc: what it returns.
DidDefrag == in_defrag

\* ImmixSpace::end_of_gc: the defrag flag it leaves.
InDefragAfterEndOfGC == IF IsDefragEnabled THEN FALSE ELSE in_defrag

\* ImmixSpace::is_last_gc_exhaustive(did_defrag_for_last_gc)
IsLastGCExhaustive(did_defrag_for_last_gc) ==
    IF IsDefragEnabled THEN did_defrag_for_last_gc ELSE TRUE

\* The collection ends: the plan calls ImmixSpace::end_of_gc, the copy
\* allocators are reset and the mutators resume with the objects that
\* survived.
EndOfGC ==
    /\ stage = "Final"
    /\ in_defrag' = InDefragAfterEndOfGC
    /\ known' = {o \in known : /\ mark[o] = MARKED_STATE
                               /\ blockState[BlockOf(o)] # Unallocated}
    /\ copyCursor' = [w \in Workers |-> NoAddr]
    /\ stage' = "Mutator"
    /\ UNCHANGED <<mmtkVars, heapVars, line_mark_state, line_unavail_state, lines_consumed,
                   defragAvail, defragExhausted, chunkAllocated, wk, nodes, nurseryGC,
                   dpeKind, closureOpen, ghostVars, holeVars, scanned, postScanned, graphVars, buckets, pkt,
                   epilogueCounter, flushes, gcCount, vmRoots, poolVars>>

\* The space after ImmixSpace::new: no block is allocated, both line states
\* are RESET_MARK_STATE, the pool is empty.
SpaceAfterNew ==
    /\ mark = [a \in Addrs |-> UNMARKED_STATE]
    /\ fwdBits = [a \in Addrs |-> "NOT"]
    /\ fwdPtr = [a \in Addrs |-> NoAddr]
    /\ pinned = [a \in Addrs |-> FALSE]
    /\ blockState = [b \in Blocks |-> Unallocated]
    /\ defragSource = [b \in Blocks |-> FALSE]
    /\ holes = [b \in Blocks |-> 0]
    /\ lineMark = [l \in Addrs |-> 0]
    /\ line_mark_state = RESET_MARK_STATE
    /\ line_unavail_state = RESET_MARK_STATE
    /\ lines_consumed = 0
    /\ in_defrag = FALSE
    /\ defragAvail = 0
    /\ defragExhausted = FALSE
    /\ chunkAllocated = [c \in Chunks |-> FALSE]
    /\ wk = [w \in Workers |-> IdleCall]
    /\ nodes = [w \in Workers |-> <<>>]
    /\ copyCursor = [w \in Workers |-> NoAddr]
    /\ known = {}
    /\ nurseryGC = FALSE
    /\ dpeKind = TRACE_KIND_FAST
    /\ closureOpen = FALSE
    /\ done = [w \in Workers |-> <<>>]
    /\ copies = [a \in Addrs |-> 0]
    /\ failed = {}
    /\ holeStart = NoAddr
    /\ scanned = [a \in Addrs |-> 0]
    /\ postScanned = [a \in Addrs |-> 0]
    /\ sentinel = NoPacket
    /\ weakRounds = <<>>
    /\ gc_status = "NotInGC"
    /\ scanned_stacks = 0
    /\ holeRes = NoHole
    /\ field = [a \in Addrs |-> NoAddr]
    /\ rootSlot = [r \in RootIds |-> NoAddr]
    /\ buckets = [st \in Stages |-> {}]
    /\ stage = "Mutator"
    /\ pkt = [w \in Workers |-> NoPacket]
    /\ epilogueCounter = 0
    /\ flushes = 0
    /\ gcCount = 0
    /\ reusable_blocks = {}
    /\ defrag_spill_threshold = 0
    /\ lastAlloc = NoAlloc

\* A space that moves objects, in a VM whose roots are the references the
\* model keeps in known.
InitCycle ==
    /\ SpaceAfterNew
    /\ never_move_objects = NEVER_MOVE_OBJECTS
    /\ vmRoots = NoRoots

\* The scheduler opens the next stage once no worker is in a call.
CycleOpenNextStage ==
    /\ stage # "Mutator"
    /\ \A w \in Workers : wk[w].pc = "idle"
    /\ OpenNextStage

NextCycle(cycles) ==
    \/ MutatorGetCleanBlock(cycles)
    \/ MutatorGetReusableBlock
    \/ ScheduleCollection(cycles)
    \/ \E w \in Workers :
         stage # "Mutator" /\ (w = Tracer \/ stage = "Release") /\ GetPacket(w)
    \/ \E w \in Workers : StopMutators(w)
    \/ \E w \in Workers : ScanVMSpecificRoots(w)
    \/ \E w \in Workers : Prepare(w)
    \/ \E w \in Workers : PrepareBlockStateDoWork(w)
    \/ \E w \in Workers : CycleTrace(w)
    \/ \E w \in Workers : TraceStep(w)
    \/ \E w \in Workers : CycleReturn(w)
    \/ \E w \in Workers : w = Tracer /\ CopyGetReusableBlock(w)
    \/ \E w \in Workers : Release(w)
    \/ \E w \in Workers : SweepChunk(w)
    \/ \E w \in Workers : FinishOneWorkPacket(w)
    \/ CycleOpenNextStage
    \/ EndOfGC

SpecCycle == InitCycle /\ [][NextCycle(MaxCycles)]_vars

\* The life cycle over ShortCycles collections.
SpecShortCycle == InitCycle /\ [][NextCycle(ShortCycles)]_vars

(***************************************************************************)
(* The short life cycle of a space created with either value of             *)
(* never_move_objects.                                                      *)
(***************************************************************************)
InitSpaceArgs ==
    /\ SpaceAfterNew
    /\ never_move_objects \in BOOLEAN
    /\ vmRoots = NoRoots

SpecSpaceArgs == InitSpaceArgs /\ [][NextCycle(ShortCycles)]_vars

(***************************************************************************)
(* The start of a collection, up to the end of its Prepare stage, in a VM   *)
(* with three mutators.                                                     *)
(***************************************************************************)
\* The first mutator holds the root slots.
InitStatus ==
    /\ SpaceAfterNew
    /\ never_move_objects = NEVER_MOVE_OBJECTS
    /\ vmRoots = [NoRoots EXCEPT !.mutators = <<Mutator(RootSlots, <<>>),
                                                Mutator(<<>>, <<>>),
                                                Mutator(<<>>, <<>>)>>]

\* One step of worker w.
StatusStep(w) ==
    \/ GetPacket(w)
    \/ StopMutators(w)
    \/ ScanVMSpecificRoots(w)
    \/ ScanMutatorRoots(w)
    \/ Prepare(w)
    \/ PrepareBlockStateDoWork(w)

NextStatus ==
    \/ MutatorGetCleanBlock(MaxCycles)
    \/ ScheduleCollection(MaxCycles)
    \/ \E w \in Workers : stage # "Mutator" /\ StatusStep(w)

\* Every worker thread keeps running.
SpecStatus ==
    /\ InitStatus
    /\ [][NextStatus]_vars
    /\ \A w \in Workers : WF_vars(stage # "Mutator" /\ StatusStep(w))

(***************************************************************************)
(* Properties of get_next_available_lines                                   *)
(***************************************************************************)
\* A line the allocator may reuse.
Available(line) ==
    lineMark[line] # line_unavail_state /\ lineMark[line] # line_mark_state

\* The line after the last line of the block searched.
SearchBlockEnd == BlockStart(BlockOf(holeStart)) + LINES

\* Block 0 holds [U, U, C, X, X, C, X] in its first seven lines and
\* unavailable lines after them.
IsPatternBlock ==
    /\ lineMark[0] = line_unavail_state
    /\ lineMark[1] = line_unavail_state
    /\ lineMark[2] = line_mark_state
    /\ Available(3)
    /\ Available(4)
    /\ lineMark[5] = line_mark_state
    /\ Available(6)
    /\ \A l \in 7 .. (LINES - 1) : ~Available(l)

\* C9: when the search returns Some((start, end)), search_start <= start <
\* end <= block end, every line of [start, end) is available, every line of
\* [search_start, start) is unavailable, and end is the block end or an
\* unavailable line; on the pattern block the search returns (3,5) from 0,
\* (6,7) from 5, and None from 7.
C9_HoleIsFirstMaximalRun ==
    /\ (holeStart # NoAddr /\ holeRes # NoHole) =>
         /\ holeStart <= holeRes[1]
         /\ holeRes[1] < holeRes[2]
         /\ holeRes[2] <= SearchBlockEnd
         /\ \A l \in holeRes[1] .. (holeRes[2] - 1) : Available(l)
         /\ \A l \in holeStart .. (holeRes[1] - 1) : ~Available(l)
         /\ (holeRes[2] = SearchBlockEnd \/ ~Available(holeRes[2]))
         /\ "hole_not_available" \notin failed
    /\ IsPatternBlock =>
         /\ holeStart = 0 => holeRes = <<3, 5>>
         /\ holeStart = 5 => holeRes = <<6, 7>>
         /\ holeStart = 7 => holeRes = NoHole

\* A search from line 5 of the pattern block has returned (6,7).
C9_Witness ==
    /\ IsPatternBlock
    /\ line_unavail_state # line_mark_state
    /\ holeStart = 5
    /\ holeRes = <<6, 7>>

\* C10: the search returns None exactly when no line from search_start to
\* the end of its block is available, and a search changes no line mark, no
\* block state and no counter of the space.
C10_NoneIffNoAvailableLine ==
    /\ [](holeStart # NoAddr =>
            (holeRes = NoHole
               <=> \A l \in holeStart .. (SearchBlockEnd - 1) : ~Available(l)))
    /\ [][holeStart' # holeStart =>
            UNCHANGED <<lineMark, blockState, holes, defragSource, mark,
                        line_mark_state, line_unavail_state, lines_consumed,
                        defragAvail, defragExhausted>>]_vars

\* A search from the middle of a block with a hole before search_start
\* and none after it has returned None.
C10_Witness ==
    /\ holeStart = 3
    /\ holeRes = NoHole
    /\ Available(1)
    /\ line_unavail_state = line_mark_state


(***************************************************************************)
(* Properties of the trace functions                                        *)
(***************************************************************************)
\* The calls that have returned a reference.
Returned ==
    UNION {{done[w][i] : i \in 1 .. Len(done[w])} : w \in Workers}
      \cup {wk[w] : w \in {x \in Workers : wk[x].pc = "ret"}}

\* The calls of trace_object_with_opportunistic_copy on object o that have
\* returned.
ReturnedTwoc(o) == {c \in Returned : c.fn = "twoc" /\ c.obj = o}

\* The calls of trace_object_without_moving on object o that have returned.
ReturnedTwm(o) == {c \in Returned : c.fn = "twm" /\ c.obj = o}

\* How many times object o stands in the node queues of the workers.
RECURSIVE Enqueued(_, _)
Enqueued(o, ws) ==
    IF ws = {} THEN 0
    ELSE LET w == CHOOSE x \in ws : TRUE IN
           Cardinality({i \in 1 .. Len(nodes[w]) : nodes[w][i] = o})
             + Enqueued(o, ws \ {w})

\* C1 (as amended): of the calls of trace_object_with_opportunistic_copy on
\* one object in one collection, at most one copies the object, and only a
\* winner of the race does; every call returns the same reference, which is
\* the address of the copy if the object was copied and the object itself
\* if the winner left it in place.
C1_CopiedAtMostOnceReturnsAgree ==
    \A o \in known :
      /\ copies[o] <= 1
      /\ \A c, d \in ReturnedTwoc(o) : c.ret = d.ret
      /\ \A c \in ReturnedTwoc(o) :
           /\ c.ret = (IF copies[o] = 1 THEN fwdPtr[o] ELSE o)
           /\ c.copied => (c.won /\ c.ret # o /\ copies[o] = 1)
           /\ c.ret # o => c.ret \notin OrigObjs

\* Two workers raced on one object: one copied it, the other lost the race
\* and returned the address of that copy.
C1_Witness ==
    \E o \in OrigObjs :
      /\ Len(done["w1"]) > 0 /\ Len(done["w2"]) > 0
      /\ done["w1"][1].fn = "twoc" /\ done["w1"][1].obj = o /\ done["w1"][1].copied
      /\ done["w2"][1].fn = "twoc" /\ done["w2"][1].obj = o /\ ~done["w2"][1].won
      /\ done["w2"][1].ret = done["w1"][1].ret
      /\ done["w2"][1].ret # o

\* C1 (as stated): once calls of trace_object_with_opportunistic_copy on an
\* object have returned, exactly one call has returned a newly-allocated
\* forwarded address.
C1_ExactlyOneCallReturnsACopy ==
    \A o \in known :
      ReturnedTwoc(o) # {} =>
        /\ copies[o] = 1
        /\ \E c \in ReturnedTwoc(o) : c.copied /\ c.ret # o

\* C3: in a collection whose prepare cleared the marks, an object is
\* enqueued at most once however many calls of trace_object_without_moving
\* trace it, sequentially or concurrently; it has been enqueued exactly once
\* when such calls were made and all calls on it have returned; and every
\* call returns the object itself.
C3_WithoutMovingEnqueuesOnce ==
    \A o \in known :
      /\ Enqueued(o, Workers) <= 1
      /\ \A c \in ReturnedTwm(o) : c.ret = o /\ ~c.copied
      /\ (~nurseryGC /\ o \in OrigObjs /\ ReturnedTwm(o) # {}) =>
           /\ mark[o] = MARKED_STATE
           /\ (\A w \in Workers : wk[w].obj = o => wk[w].pc = "ret") =>
                Enqueued(o, Workers) = 1

\* Both workers traced the same object without moving it: one call enqueued
\* it and the other found it marked.
C3_Witness ==
    \E o \in OrigObjs :
      /\ ~nurseryGC
      /\ Len(done["w1"]) > 0 /\ Len(done["w2"]) > 0
      /\ done["w1"][1].fn = "twm" /\ done["w1"][1].obj = o /\ done["w1"][1].enq = 1
      /\ done["w2"][1].fn = "twm" /\ done["w2"][1].obj = o /\ done["w2"][1].enq = 0
      /\ Enqueued(o, Workers) = 1

\* C5: a pinned object is never copied: a winner of the race on an unmarked
\* pinned object marks it in place and returns the object itself, in nursery
\* collections and others, whether the copy reserve is exhausted or not.
C5_PinnedObjectNeverMoved ==
    \A o \in known :
      pinned[o] =>
        /\ copies[o] = 0
        /\ fwdBits[o] # "FORWARDED"
        /\ \A w \in Workers :
             wk[w].obj = o => wk[w].pc \notin {"cp_alloc", "cp_post_copy", "cp_publish"}
        /\ \A c \in ReturnedTwoc(o) :
             /\ c.ret = o
             /\ (c.won /\ ~c.inplace) => c.enq = 0
             /\ c.inplace => (c.won /\ mark[o] = MARKED_STATE /\ c.enq = 1)

\* A winner marked a pinned object in place in a nursery collection whose
\* copy reserve is not exhausted.
C5_Witness ==
    \E c \in Returned :
      /\ c.fn = "twoc" /\ c.nursery /\ c.won /\ c.inplace
      /\ pinned[c.obj]
      /\ ~defragExhausted
      /\ c.ret = c.obj

\* C6: trace_object returns a reference other than its argument only for
\* kind DEFRAG on an object in a defrag source block; for kinds FAST and
\* TRANSITIVE_PIN, and for objects outside defrag source blocks, it traces
\* without moving; may_move_objects is true only for DEFRAG.
C6_OnlyDefragOfDefragSourceMoves ==
    /\ \A c \in Returned :
         c.entry = "trace_object" =>
           /\ c.ret # c.obj => (c.kind = TRACE_KIND_DEFRAG /\ c.src_defrag)
           /\ (c.kind # TRACE_KIND_DEFRAG \/ ~c.src_defrag) =>
                (c.fn = "twm" /\ c.ret = c.obj /\ ~c.copied)
    /\ \A w \in Workers :
         (wk[w].entry = "trace_object" /\ wk[w].fn = "twoc") =>
            (wk[w].kind = TRACE_KIND_DEFRAG /\ wk[w].src_defrag)
    /\ \A kind \in TraceKinds : MayMoveObjects(kind) => kind = TRACE_KIND_DEFRAG
    /\ \A c \in Returned :
         (c.entry = "trace_object" /\ c.ret # c.obj) => MayMoveObjects(c.kind)

\* A DEFRAG trace moved an object out of a defrag source block, and a trace
\* of an object outside the defrag sources returned it unmoved.
C6_Witness ==
    /\ \E c \in Returned :
         /\ c.entry = "trace_object" /\ c.kind = TRACE_KIND_DEFRAG
         /\ c.src_defrag /\ c.ret # c.obj
    /\ \E c \in Returned :
         /\ c.entry = "trace_object" /\ c.kind = TRACE_KIND_DEFRAG
         /\ ~c.src_defrag /\ c.ret = c.obj /\ c.obj \in OrigObjs

\* C8: when trace_object_with_opportunistic_copy returns a reference other
\* than its argument, the block of that reference is Marked and is no defrag
\* source; when the winner marked the object in place, the block of the
\* object is Marked.
C8_ForwardedIntoMarkedBlock ==
    /\ \A c \in Returned :
         c.fn = "twoc" =>
           /\ c.ret # c.obj =>
                /\ blockState[BlockOf(c.ret)] = Marked
                /\ ~defragSource[BlockOf(c.ret)]
           /\ c.inplace => blockState[BlockOf(c.obj)] = Marked
    /\ "new_object_block_not_marked" \notin failed
    /\ "loser_in_defrag_source" \notin failed

\* One call returned the address of a copy and another call marked its
\* object in place, in a block that was not Marked before.
C8_Witness ==
    /\ \E c \in Returned : c.fn = "twoc" /\ c.copied /\ c.ret # c.obj
    /\ \E c \in Returned : c.fn = "twoc" /\ c.inplace /\ c.won /\ ~c.nursery


(***************************************************************************)
(* Properties of attempt_mark                                               *)
(***************************************************************************)
\* The calls of attempt_mark on o in collection g that returned true.
TrueMarks(o, g) == {id \in ReturnedMarks(o, g) : CallOf(id).am}

\* C4: of the calls of attempt_mark on an unmarked object between two
\* clearings of its mark, exactly one returns true, however the calls
\* interleave; a call that starts after another call has returned gets
\* false; and after the mark is cleared a call gets true again.
C4_AttemptMarkSucceedsOnce ==
    \A o \in OrigObjs : \A g \in 0 .. gcCount :
      /\ Cardinality(TrueMarks(o, g)) <= 1
      /\ ReturnedMarks(o, g) # {} => Cardinality(TrueMarks(o, g)) = 1
      /\ \A id \in ReturnedMarks(o, g) : CallOf(id).late => ~CallOf(id).am
      /\ (g = gcCount /\ ReturnedMarks(o, g) # {}) => mark[o] = MARKED_STATE

\* Two workers called attempt_mark on one unmarked object at the same time:
\* one got true and one false; after PrepareBlockState cleared the mark, a
\* call got true again.
C4_Witness ==
    \E o \in OrigObjs :
      /\ gcCount = 1
      /\ Len(done["w1"]) > 0 /\ Len(done["w2"]) > 0
      /\ done["w1"][1].obj = o /\ done["w1"][1].gc = 0 /\ done["w1"][1].am
      /\ done["w2"][1].obj = o /\ done["w2"][1].gc = 0 /\ ~done["w2"][1].am
      /\ ~done["w1"][1].late /\ ~done["w2"][1].late
      /\ Cardinality(TrueMarks(o, 1)) = 1


(***************************************************************************)
(* Properties of a whole collection                                         *)
(***************************************************************************)
\* The object is marked, or forwarded to a marked object.
MarkedOrForwardedToMarked(o) ==
    \/ mark[o] = MARKED_STATE
    \/ /\ fwdPtr[o] # NoAddr
       /\ mark[fwdPtr[o]] = MARKED_STATE

\* C2: every object that was reachable from the roots when a major
\* collection started is, once the closure has drained and after release
\* and the sweep have run, marked with mark_state or forwarded to an object
\* that is marked with mark_state.
C2_ReachableObjectsAreMarked ==
    stage \in {"Release", "Final"} =>
      \A o \in vmRoots.reach : MarkedOrForwardedToMarked(o)

\* A collection has finished in which one reachable object was marked in
\* place and another was forwarded to a marked copy.
C2_Witness ==
    /\ stage = "Final"
    /\ flushes = 1
    /\ \E o \in vmRoots.reach : mark[o] = MARKED_STATE
    /\ \E o \in vmRoots.reach :
         /\ mark[o] # MARKED_STATE
         /\ fwdPtr[o] # NoAddr
         /\ mark[fwdPtr[o]] = MARKED_STATE

\* The stages from Closure on.
ClosureOpened == stage \in {"Closure", "Release", "Final"}

\* C7: an object delivered as a pinning root, and every object reachable
\* from a transitively pinning root, keeps its address for the whole
\* collection: ProcessRootNode gets the same reference back from
\* trace_object, the object is marked before the Closure stage opens, and
\* no trace of the Closure stage copies it.
C7_PinningRootsKeepAddress ==
    /\ "root_object_moved" \notin failed
    /\ \A o \in vmRoots.pinning \cup vmRoots.treach :
         /\ copies[o] = 0
         /\ fwdBits[o] # "FORWARDED"
         /\ fwdPtr[o] = NoAddr
         /\ ClosureOpened => mark[o] = MARKED_STATE
         /\ \A id \in ReturnedIds :
              CallOf(id).obj = o => (CallOf(id).ret = o /\ ~CallOf(id).copied)

\* In the Closure stage a DEFRAG trace won the forwarding race on a pinning
\* root that lies in a defrag source block, found it marked and returned it
\* unmoved.
C7_Witness ==
    \E o \in vmRoots.pinning : \E id \in ReturnedIds :
      /\ stage = "Closure"
      /\ defragSource[BlockOf(o)]
      /\ ~pinned[o]
      /\ ~defragExhausted
      /\ CallOf(id).obj = o
      /\ CallOf(id).fn = "twoc"
      /\ CallOf(id).kind = TRACE_KIND_DEFRAG
      /\ CallOf(id).won
      /\ CallOf(id).ret = o

(***************************************************************************)
(* Properties of the life cycle of the space                               *)
(***************************************************************************)
\* The release of the last collection is over and the next has not begun.
AfterRelease == stage \in {"Final", "Mutator"} /\ gcCount > 0

\* The first address past the heap.
HeapEnd == NumBlocks * LINES

\* The ranges returned by calling get_next_available_lines from
\* search_start and again from each returned end, until it returns None.
\* The end of a range that reaches the end of a block is the first line of
\* the next block, which the search then takes for its block.
RECURSIVE WalkToNone(_)
WalkToNone(search_start) ==
    IF search_start >= HeapEnd THEN <<>>
    ELSE LET hole == GetNextAvailableLines(search_start)
         IN IF hole = NoHole THEN <<>> ELSE <<hole>> \o WalkToNone(hole[2])

\* The same calls, stopped as the allocator stops them: at None, or at a
\* range that ends where the block ends.
RECURSIVE WalkBlock(_, _)
WalkBlock(block, search_start) ==
    LET hole == GetNextAvailableLines(search_start)
    IN IF hole = NoHole THEN <<>>
       ELSE IF hole[2] = BlockStart(block) + LINES THEN <<hole>>
       ELSE <<hole>> \o WalkBlock(block, hole[2])

RangeLines(ranges) == UNION {ranges[i][1] .. (ranges[i][2] - 1) : i \in DOMAIN ranges}

DisjointRanges(ranges) ==
    \A i, j \in DOMAIN ranges :
      i < j => (ranges[i][1] .. (ranges[i][2] - 1)) \cap (ranges[j][1] .. (ranges[j][2] - 1)) = {}

\* The ranges are disjoint, cover exactly LINES - unavailable_lines lines and
\* no line of them is marked with line_unavail_state or line_mark_state.
CoversAvailableLines(block, ranges) ==
    /\ DisjointRanges(ranges)
    /\ Cardinality(RangeLines(ranges)) = LINES - blockState[block].unavailable_lines
    /\ \A l \in RangeLines(ranges) :
         lineMark[l] # line_unavail_state /\ lineMark[l] # line_mark_state

\* C11 (as amended): for every block in state Reusable{unavailable_lines}
\* after release, the calls of get_next_available_lines from the first line
\* of the block, continued from each returned end inside the block, end
\* with None or with a range that ends at the end of the block; the ranges
\* lie in the block, are disjoint, cover exactly LINES - unavailable_lines
\* lines, and none of their lines is marked with line_unavail_state or
\* line_mark_state.
C11_HolesCoverAvailableLines ==
    AfterRelease =>
      \A b \in Blocks :
        blockState[b].tag = "Reusable" =>
          /\ CoversAvailableLines(b, WalkBlock(b, BlockStart(b)))
          /\ RangeLines(WalkBlock(b, BlockStart(b))) \subseteq BlockLines(b)

\* After a release a block is Reusable with two holes, and the search
\* returns both.
C11_Witness ==
    /\ AfterRelease
    /\ \E b \in Blocks :
         /\ blockState[b].tag = "Reusable"
         /\ blockState[b].unavailable_lines = 2
         /\ Len(WalkBlock(b, BlockStart(b))) = 2

\* C11 as stated: the calls continue from every returned end until None and
\* the ranges they returned cover exactly LINES - unavailable_lines lines.
C11_WalkToNoneCoversAvailableLines ==
    AfterRelease =>
      \A b \in Blocks :
        blockState[b].tag = "Reusable" =>
          CoversAvailableLines(b, WalkToNone(BlockStart(b)))

\* C12: after the release of a major collection, a line of an allocated
\* block on which no object was marked in this collection (the object mark
\* bits are cleared when the collection is prepared, and every marking of a
\* line follows the marking of an object on it) is not counted live by the
\* sweep and, in a Reusable block, lies in a range the hole search returns,
\* however often line_mark_state has been rotated since the line was marked.
C12_RotationDoesNotPreserveLiveness ==
    (stage = "Final" /\ ~nurseryGC) =>
      \A b \in Blocks : \A l \in BlockLines(b) :
        (blockState[b] # Unallocated /\ mark[l] # MARKED_STATE) =>
          /\ l \notin LiveLines(b)
          /\ blockState[b].tag = "Reusable" =>
               l \in RangeLines(WalkBlock(b, BlockStart(b)))

\* The Release packet of the collection is still to run, or running.
ReleasePending ==
    \/ \E q \in buckets["Release"] : q.type = "Release"
    \/ \E w \in Workers : pkt[w].type = "Release"

\* The Prepare packet of the collection is still to run, or running.
PreparePending ==
    \/ \E q \in buckets["Prepare"] : q.type = "Prepare"
    \/ \E w \in Workers : pkt[w].type = "Prepare"

\* The step is ImmixSpace::release.
ReleaseStep == \E w \in Workers : pkt[w].type = "Release" /\ pkt'[w].type = "none"

\* C13: line_unavail_state is written by release only: the release of a
\* major collection stores line_mark_state into it, the release of a
\* collection that is not major leaves it unchanged, and no other step
\* changes it.  Hence the two states differ between the prepare of a major
\* collection and its release, and they are equal after every release,
\* where line_unavail_state is the line_mark_state the last major collection
\* ended with.
C13_UnavailStateFollowsMarkState ==
    /\ [][/\ ReleaseStep =>
               line_unavail_state' = IF nurseryGC THEN line_unavail_state
                                     ELSE line_mark_state
          /\ ~ReleaseStep => line_unavail_state' = line_unavail_state]_vars
    /\ []((stage # "Mutator" /\ ~nurseryGC /\ ~PreparePending /\ ReleasePending)
             => line_mark_state # line_unavail_state)
    /\ []((stage = "Mutator" \/ (~PreparePending /\ ~ReleasePending))
             => line_mark_state = line_unavail_state)

\* A major collection has wrapped line_mark_state and released: both states
\* are RESET_MARK_STATE again.
C13_Witness ==
    /\ stage = "Final"
    /\ ~nurseryGC
    /\ gcCount >= 2
    /\ line_mark_state = RESET_MARK_STATE
    /\ line_unavail_state = line_mark_state
    /\ \E b \in Blocks : blockState[b].tag = "Reusable"

\* A PrepareBlockState packet of the collection is still to run, or running.
PrepareBlockStatePending ==
    \/ \E q \in buckets["Prepare"] : q.type = "PrepareBlockState"
    \/ \E w \in Workers : pkt[w].type = "PrepareBlockState"

\* prepare and every packet it generated have run; the Prepare stage is
\* still open.
PrepareDone ==
    stage = "Prepare" /\ ~PreparePending /\ ~PrepareBlockStatePending

C15_AllocatedDefragSourceImpliesInDefrag ==
    \A b \in Blocks :
      (blockState[b] # Unallocated /\ defragSource[b]) =>
        \/ in_defrag /\ holes[b] > defrag_spill_threshold
        \/ DEFRAG_EVERY_BLOCK

\* A defrag collection traces while an allocated block is a defrag source.
C15_Witness ==
    /\ stage = "Closure"
    /\ in_defrag
    /\ \E b \in Blocks :
         /\ blockState[b] # Unallocated
         /\ defragSource[b]
         /\ holes[b] > defrag_spill_threshold

\* C15 as stated: in every reachable state, a block that is a defrag source
\* implies that the space is in defrag mode and that its hole count exceeds
\* the spill threshold, or DEFRAG_EVERY_BLOCK is set.
C15_DefragSourceImpliesInDefrag ==
    \A b \in Blocks :
      defragSource[b] =>
        \/ in_defrag /\ holes[b] > defrag_spill_threshold
        \/ DEFRAG_EVERY_BLOCK

\* A SweepChunk packet is still to run, is sweeping, or has not yet called
\* finish_one_work_packet.
SweepChunkPending ==
    \/ \E q \in buckets["Release"] : q.type = "SweepChunk"
    \/ \E w \in Workers : pkt[w].type = "SweepChunk"

\* The step is the call of finish_one_work_packet that ends a SweepChunk.
FinishStep ==
    \E w \in Workers : pkt[w].type = "SweepChunk" /\ pkt[w].i = 2 /\ pkt'[w].type = "none"

\* C16 (as amended): for every call of release that generates a SweepChunk
\* packet, flush_page_resource is invoked exactly once, by the last
\* SweepChunk packet to finish, and not before every SweepChunk packet of
\* the release has swept its blocks: the release starts the count at zero
\* with a packet pending, only the finish of a packet invokes the flush, it
\* does so exactly when no other packet is pending, and no packet is
\* pending when the Release stage is over.
C16_FlushedOnceByLastSweepChunk ==
    /\ [](flushes <= 1)
    /\ [](flushes = 1 => ~SweepChunkPending /\ epilogueCounter = 0)
    /\ [](stage = "Final" => ~SweepChunkPending)
    /\ [][ReleaseStep => /\ flushes' = 0
                         /\ epilogueCounter' = Cardinality(buckets'["Release"])
                         /\ \A q \in buckets'["Release"] : q.type = "SweepChunk"]_vars
    /\ [][(ReleaseStep /\ \E c \in Chunks : chunkAllocated[c]) => SweepChunkPending']_vars
    /\ [][FinishStep => flushes' = (IF SweepChunkPending' THEN flushes ELSE flushes + 1)]_vars
    /\ [][(~FinishStep /\ ~ReleaseStep) => flushes' = flushes]_vars

\* A release generated a SweepChunk packet for each of two chunks; both have
\* swept and finished, and the one that finished last has flushed.
C16_Witness ==
    /\ stage = "Release"
    /\ flushes = 1
    /\ ~SweepChunkPending
    /\ \A c \in Chunks : \E b \in ChunkBlocks(c) : b \in reusable_blocks

\* C16 as stated: every release is followed by exactly one flush.
C16_EveryReleaseFlushesOnce ==
    stage = "Final" => flushes = 1

\* The step initialises block b, as get_clean_block and get_reusable_block
\* do, and adds n to lines_consumed.
InitialisesAndAdds(b, n) ==
    /\ blockState'[b] \in {Unmarked, Marked}
    /\ lines_consumed' = lines_consumed + n

\* C17: release stores 0 in lines_consumed, in major collections and
\* others; every other step that changes lines_consumed is a
\* get_clean_block, which adds LINES for the Unallocated block it
\* initialises, or a get_reusable_block, which adds the available lines of
\* the block it initialises; so lines_consumed never decreases between two
\* consecutive releases.
C17_LinesConsumedGrowsUntilRelease ==
    /\ [][ReleaseStep => lines_consumed' = 0]_vars
    /\ [][~ReleaseStep => lines_consumed' >= lines_consumed]_vars
    /\ [][(~ReleaseStep /\ lines_consumed' # lines_consumed) =>
            \E b \in Blocks :
              \/ blockState[b] = Unallocated /\ InitialisesAndAdds(b, LINES)
              \/ /\ blockState[b].tag = "Reusable"
                 /\ b \in reusable_blocks
                 /\ InitialisesAndAdds(b, LINES - blockState[b].unavailable_lines)
              \/ /\ blockState[b] = Unmarked
                 /\ b \in reusable_blocks
                 /\ InitialisesAndAdds(b, LINES)]_vars

\* Since the last release several calls have added to lines_consumed, the
\* last of them a get_reusable_block that returned a Reusable block.
C17_Witness ==
    /\ gcCount > 0
    /\ lastAlloc.fn = "get_reusable_block"
    /\ lastAlloc.block # NoAddr
    /\ lastAlloc.before.tag = "Reusable"
    /\ lines_consumed > LINES

\* The step is a call of get_clean_block by a mutator.
MutatorCleanBlockStep ==
    lastAlloc' # lastAlloc /\ lastAlloc'.fn = "get_clean_block"

\* The step is the allocation of a copy allocator that has no block, which
\* calls get_clean_block(tls, true).
CopyCleanBlockStep ==
    \E w \in Workers : wk[w].pc = "cp_alloc" /\ wk'[w].pc # "cp_alloc" /\ copyCursor[w] = NoAddr

\* get_clean_block returned None and changed nothing of the space.
ReturnedNoneUnchanged ==
    /\ FreeBlocks = {}
    /\ UNCHANGED <<lines_consumed, chunkAllocated, blockState, holes, defragSource,
                   defragAvail, defragExhausted, reusable_blocks>>

\* get_clean_block(tls, copy) returned block b, initialised.
ReturnedInitialised(b, copy) ==
    /\ blockState[b] = Unallocated
    /\ blockState' = [blockState EXCEPT ![b] = IF copy THEN Marked ELSE Unmarked]
    /\ holes'[b] = 0
    /\ ~defragSource'[b]
    /\ chunkAllocated' = [chunkAllocated EXCEPT ![ChunkOf(b)] = TRUE]
    /\ lines_consumed' = lines_consumed + LINES

\* C18: a get_clean_block for which the page resource has no block returns
\* None and leaves lines_consumed, the chunk map, every block state and the
\* defrag counters unchanged; otherwise the block it returns was
\* Unallocated and is initialised (Marked if copy, else Unmarked, zero
\* holes, not a defrag source), its chunk is marked allocated, no other
\* block state or chunk changes, and lines_consumed has grown by LINES.
C18_GetCleanBlockAllOrNothing ==
    /\ [][MutatorCleanBlockStep =>
            IF lastAlloc'.block = NoAddr THEN ReturnedNoneUnchanged
            ELSE ReturnedInitialised(lastAlloc'.block, FALSE)]_vars
    /\ [][CopyCleanBlockStep =>
            IF \E w \in Workers : wk'[w].pc = "halt" THEN ReturnedNoneUnchanged
            ELSE \E b \in Blocks : ReturnedInitialised(b, TRUE)]_vars

\* The heap has no free block: copy allocators and mutators were given
\* clean blocks, and the last call of a mutator returned None.
C18_Witness ==
    /\ FreeBlocks = {}
    /\ lastAlloc.fn = "get_clean_block"
    /\ lastAlloc.block = NoAddr
    /\ lines_consumed >= LINES
    /\ \E b \in Blocks : copies[BlockStart(b)] > 0 \/ \E a \in BlockLines(b) : fwdPtr[a] # NoAddr

\* The step is a call of get_reusable_block.
ReusableBlockStep ==
    lastAlloc' # lastAlloc /\ lastAlloc'.fn = "get_reusable_block"

SweepStep ==
    \E w \in Workers : pkt[w].type = "SweepChunk" /\ pkt[w].i = 1 /\ pkt'[w].i = 2

\* The step is a PrepareBlockState packet.
PrepareBlockStateStep ==
    \E w \in Workers : pkt[w].type = "PrepareBlockState" /\ pkt'[w].type = "none"

\* The step is a get_clean_block that returned a block.
CleanBlockStep ==
    lines_consumed' = lines_consumed + LINES /\ (MutatorCleanBlockStep \/ CopyCleanBlockStep)

\* The step is a get_reusable_block of a copy allocator or of a mutator.
ReusableBlockOf(copy) == ReusableBlockStep /\ lastAlloc'.copy = copy

\* The step is one of a trace_object call.
TraceObjectStep == \E w \in Workers : wk[w].pc # "idle" /\ wk'[w] # wk[w]

\* The transitions of the state of a block that the code performs, and the
\* operation that performs each.
BlockTransition(from, to) ==
    CASE to = "Unallocated" -> SweepStep
      [] to = "Reusable" -> SweepStep
      [] to = "Unmarked" ->
           \/ from = "Unallocated" /\ CleanBlockStep /\ MutatorCleanBlockStep
           \/ from \in {"Marked", "Reusable"} /\ PrepareBlockStateStep
           \/ from = "Reusable" /\ ReusableBlockOf(FALSE)
      [] to = "Marked" ->
           \/ from = "Unallocated" /\ CleanBlockStep /\ CopyCleanBlockStep
           \/ from \in {"Unmarked", "Reusable"} /\ ReusableBlockOf(TRUE)
           \/ from = "Unmarked" /\ (TraceObjectStep \/ SweepStep)

\* C20 (as amended): over any sequence of allocation, prepare, trace, sweep
\* and release operations, the state of a block changes only in these ways:
\* Unallocated to Unmarked or to Marked by get_clean_block (Marked for a
\* copy allocator); Marked or Reusable to Unmarked by PrepareBlockState;
\* Reusable to Unmarked, and Unmarked or Reusable to Marked, by
\* get_reusable_block (Marked for a copy allocator); Unmarked to Marked by
\* the trace of an object that stays in place, or by the sweep; any
\* allocated state to Reusable, and to Unallocated, by the sweep only.
C20_BlockStateTransitions ==
    [][\A b \in Blocks :
         blockState'[b] # blockState[b] =>
           BlockTransition(blockState[b].tag, blockState'[b].tag)]_vars

\* After a second collection one block that was swept to Reusable has been
\* given to a mutator and is Unmarked, and another that was allocated
\* before is released and Unallocated.
C20_Witness ==
    /\ gcCount >= 2
    /\ stage = "Mutator"
    /\ lastAlloc.fn = "get_reusable_block"
    /\ lastAlloc.block # NoAddr
    /\ lastAlloc.before.tag = "Reusable"
    /\ blockState[lastAlloc.block] = Unmarked
    /\ \E b \in Blocks :
         blockState[b] = Unallocated /\ \E l \in BlockLines(b) : lineMark[l] # 0

\* C20 as stated: the only transitions are Unallocated to Unmarked, Unmarked
\* to Marked, and Unmarked to Reusable, the last by the sweep only.
C20_OnlyThreeTransitions ==
    [][\A b \in Blocks :
         blockState'[b] # blockState[b] =>
           \/ blockState[b] = Unallocated /\ blockState'[b] = Unmarked
           \/ blockState[b] = Unmarked /\ blockState'[b] = Marked
           \/ blockState[b] = Unmarked /\ blockState'[b].tag = "Reusable" /\ SweepStep]_vars

\* The lines of block b that hold the current line mark state.
CurrentLines(b) == {l \in BlockLines(b) : lineMark[l] = line_mark_state}
CurrentLinesAfter(b) == {l \in BlockLines(b) : lineMark'[l] = line_mark_state'}

\* Worker w is in a trace_object_without_moving whose attempt_mark succeeded,
\* on the first object marked in a block that a mutator was given clean
\* (Unmarked) and of which no line holds the current line mark state.
MarksFirstObjectOfFreshBlock(w) ==
    /\ wk[w].fn = "twm"
    /\ wk[w].pc = "twm_marked"
    /\ blockState[BlockOf(wk[w].obj)] = Unmarked
    /\ CurrentLines(BlockOf(wk[w].obj)) = {}
    /\ \A a \in BlockLines(BlockOf(wk[w].obj)) : mark[a] = MARKED_STATE => a = wk[w].obj

WorkerStep(w) ==
    \/ GetPacket(w)
    \/ ScanMutatorRoots(w)
    \/ ProcessSlot(w)
    \/ ProcessSlotStore(w)
    \/ ProcessEdgesFlush(w)
    \/ ScanObjects(w)
    \/ RootNodeTrace(w)
    \/ RootNodeCheck(w)
    \/ RootNodeFinish(w)
    \/ TraceStep(w)
    \/ Release(w)
    \/ SweepChunk(w)
    \/ FinishOneWorkPacket(w)

\* Every worker thread keeps running, and the scheduler opens the next
\* bucket when the open one has drained.
SpecGCFair ==
    /\ InitGC
    /\ [][NextGC]_vars
    /\ \A w \in Workers : WF_vars(WorkerStep(w))
    /\ WF_vars(OpenNextStage)

TracingStages == {"PinningRootsTrace", "TPinningClosure", "Closure"}

\* The roots were reported, no packet is left in a tracing bucket and no
\* worker is running one.
TraceFixpoint ==
    /\ \A p \in buckets["Prepare"] : p.type # "ScanMutatorRoots"
    /\ \A st \in TracingStages : buckets[st] = {}
    /\ \A w \in Workers : pkt[w].type \notin {"ScanMutatorRoots", "PE", "SO", "PRN"}

\* Object o, or the copy it was forwarded to, was scanned exactly once.
ScannedOnce(o) ==
    IF fwdPtr[o] # NoAddr
    THEN scanned[fwdPtr[o]] = 1 /\ scanned[o] = 0
    ELSE scanned[o] = 1

\* C22: under fair scheduling the trace pipeline reaches a state with no
\* packet left in the tracing buckets and none running, and in every such
\* state each object reachable from the roots (or the copy it was forwarded
\* to) has been scanned exactly once.
C22_TraceReachesFixpointScanningOnce ==
    /\ <>TraceFixpoint
    /\ [](TraceFixpoint => \A o \in vmRoots.reach : ScannedOnce(o))

\* The fixpoint of a trace over two reachable objects, one of them
\* forwarded and its copy scanned.
C22_Witness ==
    /\ TraceFixpoint
    /\ Cardinality(vmRoots.reach) >= 2
    /\ stage = "Closure"
    /\ \E o \in vmRoots.reach : fwdBits[o] = "FORWARDED" /\ scanned[fwdPtr[o]] = 1
    /\ \E o \in vmRoots.reach : fwdBits[o] = "NOT" /\ scanned[o] = 1

(***************************************************************************)
(* The roots work factory                                                   *)
(***************************************************************************)
\* What a packet found in the bucket of stage st must be.
Routed(p, st) ==
    CASE st = "PinningRootsTrace" ->
           /\ p.type = "PRN" /\ p.r2ope = "PPE" /\ p.pe = "DPE" /\ p.bucket = "Closure"
           /\ p.objs = SetToSeq(vmRoots.pinning)
      [] st = "TPinningClosure" ->
           /\ p.type \in {"PRN", "SO", "PE"} /\ p.pe = "PPE" /\ p.bucket = "TPinningClosure"
           /\ p.type = "PRN" => p.r2ope = "PPE" /\ p.objs = SetToSeq(vmRoots.tpinning)
      [] st = "Closure" ->
           /\ p.type \in {"SO", "PE"} /\ p.pe = "DPE" /\ p.bucket = "Closure"
           /\ p.roots <=> (p.type = "PE" /\ \A i \in 1 .. Len(p.slots) : p.slots[i].root)
      [] OTHER -> TRUE

\* Every tracing packet, waiting or running, is what the factory routes to
\* its bucket, and the roots of a ProcessRootNode and all the work of the
\* TPinningClosure bucket are traced without moving.
RootsRouted ==
    /\ \A st \in TracingStages : \A p \in buckets[st] : Routed(p, st)
    /\ \A w \in Workers :
         /\ pkt[w].type \in {"PRN", "SO", "PE"} => Routed(pkt[w], stage)
         /\ (wk[w].pc # "idle" /\ (pkt[w].type = "PRN" \/ stage = "TPinningClosure")) =>
              wk[w].kind = TRACE_KIND_TRANSITIVE_PIN /\ wk[w].fn = "twm"

\* What ScanMutatorRoots and ProcessRootNode add to the buckets.
FactoryStep(w) ==
    /\ (pkt[w].type = "ScanMutatorRoots" /\ pkt'[w].type = "none") =>
         /\ \E p \in buckets'["Closure"] \ buckets["Closure"] :
              p.type = "PE" /\ p.pe = "DPE" /\ p.roots /\ p.slots = pkt[w].slots
         /\ (vmRoots.pinning # {}) =>
              \E p \in buckets'["PinningRootsTrace"] : p.type = "PRN"
         /\ (vmRoots.tpinning # {}) =>
              \E p \in buckets'["TPinningClosure"] : p.type = "PRN"
    /\ (pkt[w].type = "PRN" /\ pkt'[w].type = "none") =>
         LET target == IF stage = "PinningRootsTrace" THEN "Closure" ELSE stage
         IN \E p \in buckets'[target] \ buckets[target] :
              /\ p.type = "SO" /\ p.objs = nodes[w] /\ p.bucket = target
              /\ p.pe = (IF stage = "PinningRootsTrace" THEN "DPE" ELSE "PPE")

\* C23: the factory adds the root slots as a DefaultProcessEdges packet with
\* roots = true to Closure, the pinning roots as a ProcessRootNode to
\* PinningRootsTrace that traces them with PinningProcessEdges and puts their
\* scan work, with DefaultProcessEdges, into Closure, and the transitively
\* pinning roots as a ProcessRootNode to TPinningClosure whose root trace and
\* all descendant work use PinningProcessEdges and stay in TPinningClosure.
C23_RootsRoutedByKind ==
    /\ []RootsRouted
    /\ [][\A w \in Workers : FactoryStep(w)]_vars

\* A ProcessEdges packet of the descendants of a transitively pinning root
\* waits in the TPinningClosure bucket.
C23_Witness ==
    /\ stage = "TPinningClosure"
    /\ \E p \in buckets["TPinningClosure"] :
         p.type = "PE" /\ p.pe = "PPE" /\ p.slots # <<>> /\ ~p.slots[1].root

(***************************************************************************)
(* The rotation of line_mark_state                                          *)
(***************************************************************************)
\* The step is ImmixSpace::prepare.
PrepareStep == \E w \in Workers : pkt[w].type = "Prepare" /\ pkt'[w].type = "none"

\* C24: line_mark_state lies in RESET_MARK_STATE .. MAX_MARK_STATE and is
\* never 0; the prepare of a major collection replaces its value v by v + 1,
\* or by RESET_MARK_STATE when v + 1 exceeds MAX_MARK_STATE, the prepare of
\* a collection that is not major leaves it unchanged, and so does every
\* other step.
C24_LineMarkStateRotates ==
    /\ [](line_mark_state \in RESET_MARK_STATE .. MAX_MARK_STATE /\ line_mark_state # 0)
    /\ [][/\ (PrepareStep /\ ~nurseryGC) =>
               line_mark_state' = IF line_mark_state + 1 > MAX_MARK_STATE
                                  THEN RESET_MARK_STATE ELSE line_mark_state + 1
          /\ (PrepareStep /\ nurseryGC) => line_mark_state' = line_mark_state
          /\ ~PrepareStep => line_mark_state' = line_mark_state]_vars

\* The prepare of a major collection has just wrapped line_mark_state from
\* MAX_MARK_STATE to RESET_MARK_STATE.
C24_Witness ==
    /\ stage = "Prepare"
    /\ ~PreparePending
    /\ ~nurseryGC
    /\ line_unavail_state = MAX_MARK_STATE
    /\ line_mark_state = RESET_MARK_STATE

(***************************************************************************)
(* The defrag sources PrepareBlockState chooses                             *)
(***************************************************************************)
\* C25: with defragmentation enabled and DEFRAG_EVERY_BLOCK disabled, a
\* PrepareBlockState packet of a major collection makes an allocated block
\* of its chunk a defrag source if and only if the collection is a defrag
\* collection and the hole count stored for the block is strictly greater
\* than the spill threshold; in a collection that is no defrag collection
\* it clears the flag of every allocated block.
C25_DefragSourceIffHolesAboveThreshold ==
    [][\A w \in Workers :
         (pkt[w].type = "PrepareBlockState" /\ pkt'[w].type = "none"
          /\ IsDefragEnabled /\ ~DEFRAG_EVERY_BLOCK /\ ~nurseryGC) =>
           \A b \in ChunkBlocks(pkt[w].chunk) :
             blockState[b] # Unallocated =>
               (defragSource'[b] <=> (in_defrag /\ holes[b] > defrag_spill_threshold))]_vars

\* The packets of a defrag collection have run: a block with more holes
\* than the threshold is a source, and a block with exactly as many holes as
\* the threshold is none.
C25_Witness ==
    /\ stage = "Prepare"
    /\ ~PreparePending
    /\ ~PrepareBlockStatePending
    /\ in_defrag
    /\ defrag_spill_threshold > 0
    /\ \E b \in Blocks : /\ blockState[b] = Unmarked /\ defragSource[b]
                         /\ holes[b] > defrag_spill_threshold
    /\ \E b \in Blocks : /\ blockState[b] = Unmarked /\ ~defragSource[b]
                         /\ holes[b] = defrag_spill_threshold

(***************************************************************************)
(* The counter of the FlushPageResource epilogue                            *)
(***************************************************************************)
\* The SweepChunk packets that have not yet called finish_one_work_packet:
\* those waiting in the bucket and those a worker runs.  Each holds a clone
\* of the Arc of the epilogue, which is dropped when none is left.
UnfinishedSweepChunks ==
    Cardinality({q \in buckets["Release"] : q.type = "SweepChunk"})
      + Cardinality({w \in Workers : pkt[w].type = "SweepChunk"})

\* C26: the counter of the epilogue is stored by the release together with
\* the SweepChunk packets it adds, as their number; afterwards only the
\* finish of a packet changes it, by exactly one, from a value of at least
\* one.  So it always equals the number of unfinished SweepChunk packets, is
\* never negative, and is zero when the last holder of the epilogue is gone,
\* also after a release that generated no packet.
C26_EpilogueCounterCountsUnfinishedPackets ==
    /\ [](epilogueCounter = UnfinishedSweepChunks /\ epilogueCounter >= 0)
    /\ [](~SweepChunkPending => epilogueCounter = 0)
    /\ [][ReleaseStep =>
            /\ epilogueCounter' = Cardinality({q \in buckets'["Release"] : q.type = "SweepChunk"})
            /\ \A w \in Workers : pkt'[w].type # "SweepChunk"]_vars
    /\ [][FinishStep => epilogueCounter >= 1 /\ epilogueCounter' = epilogueCounter - 1]_vars
    /\ [][(~ReleaseStep /\ ~FinishStep) => epilogueCounter' = epilogueCounter]_vars

\* Of the two SweepChunk packets of a release one has finished and the
\* other has swept its chunk and is about to finish: the counter is one.
C26_Witness ==
    /\ stage = "Release"
    /\ epilogueCounter = 1
    /\ \E w \in Workers :
         /\ pkt[w].type = "SweepChunk" /\ pkt[w].i = 2
         /\ \E c \in Chunks \ {pkt[w].chunk} : ChunkBlocks(c) \cap reusable_blocks # {}

(***************************************************************************)
(* The loser of the forwarding race                                         *)
(***************************************************************************)
\* Every worker thread that is inside a trace function keeps running.
SpecFair ==
    /\ Init
    /\ [][Next]_vars
    /\ \A w \in Workers : WF_vars(TraceStep(w))

\* Worker w lost the forwarding race and spins.
Spinning(w) == wk[w].fn = "twoc" /\ wk[w].pc = "fw_spin"

\* C27: under fair scheduling of the workers every call of
\* trace_object_with_opportunistic_copy that lost the forwarding race
\* returns.
C27_LoserEventuallyReturns ==
    \A w \in Workers : Spinning(w) ~> (wk[w].pc = "ret")

\* A loser that found BEING_FORWARDED has returned the object itself, after
\* the winner marked it in place and cleared the forwarding bits.
C27_Witness ==
    \E w \in Workers :
      /\ wk[w].fn = "twoc" /\ wk[w].pc = "ret" /\ ~wk[w].won
      /\ wk[w].ret = wk[w].obj
      /\ \E c \in Returned : c.fn = "twoc" /\ c.obj = wk[w].obj /\ c.won /\ c.inplace

(***************************************************************************)
(* The choice of the winner between copying and marking in place            *)
(***************************************************************************)
\* Worker w, a winner that found its object unmarked, takes its decision in
\* this step.
Decides(w) == wk[w].fn = "twoc" /\ wk[w].pc = "fw_decide" /\ wk'[w].pc # "fw_decide"

\* C28: a winner of the forwarding race that found the object unmarked and
\* unpinned goes on to copy it if and only if the collection is a nursery
\* collection or the copy reserve is not exhausted, and marks it in place
\* otherwise.  The step of an in-place winner that follows attempt_mark
\* clears the forwarding bits, and a winner that marked in place has
\* returned the object itself, not copied, enqueued once, marked, in a
\* Marked block and on a line that holds the current line mark state.
C28_WinnerCopiesUnlessReserveExhausted ==
    /\ [][\A w \in Workers :
            (Decides(w) /\ ~IsPinned(wk[w].obj)) =>
              /\ (wk'[w].pc = "cp_alloc") <=> (wk[w].nursery \/ ~defragExhausted)
              /\ (wk'[w].pc # "cp_alloc") => (wk'[w].inplace /\ wk'[w].pc = "am_load")]_vars
    /\ [][\A w \in Workers :
            (wk[w].inplace /\ wk[w].pc = "ip_clear" /\ wk'[w].pc # "ip_clear") =>
              fwdBits[wk[w].obj] = "BEING" /\ fwdBits'[wk[w].obj] = "NOT"]_vars
    /\ [](\A c \in Returned :
            (c.fn = "twoc" /\ c.won /\ c.inplace) =>
              /\ c.ret = c.obj /\ ~c.copied /\ c.enq = 1
              /\ copies[c.obj] = 0 /\ fwdPtr[c.obj] = NoAddr
              /\ mark[c.obj] = MARKED_STATE
              /\ blockState[BlockOf(c.obj)] = Marked
              /\ ~MARK_LINE_AT_SCAN_TIME => lineMark[c.obj] = line_mark_state)

\* In a collection that is no nursery collection and whose copy reserve is
\* exhausted, a winner marked an unpinned object in place and returned it.
C28_Witness ==
    \E c \in Returned :
      /\ c.fn = "twoc" /\ c.won /\ c.inplace /\ c.ret = c.obj
      /\ ~IsPinned(c.obj) /\ ~c.nursery /\ defragExhausted

(***************************************************************************)
(* The forwarding bits between collections                                  *)
(***************************************************************************)
\* Worker w sweeps the chunk of its SweepChunk packet in this step.
Sweeps(w) == pkt[w].type = "SweepChunk" /\ pkt[w].i = 1 /\ pkt'[w].i = 2

\* C29: while the mutators run and when a collection begins no object has
\* forwarding bits set.  A SweepChunk of a moving collection clears the bits
\* of every allocated block of its chunk that may hold a forwarded object
\* (the defrag sources of a defrag collection, every block of a copying
\* nursery collection), and a winner that leaves the object in place,
\* marked already or marked by itself, restores NOT_FORWARDED.
C29_NoForwardingBitsBetweenCollections ==
    /\ [](stage \in {"Mutator", "Prepare"} => \A a \in Addrs : fwdBits[a] = "NOT")
    /\ [][\A w \in Workers :
            Sweeps(w) =>
              \A a \in ChunkAddrs(pkt[w].chunk) :
                (/\ blockState[BlockOf(a)] # Unallocated
                 /\ IF in_defrag THEN defragSource[BlockOf(a)] ELSE nurseryGC)
                  => fwdBits'[a] = "NOT"]_vars
    /\ [][\A w \in Workers :
            (wk[w].pc \in {"ip_clear", "fw_clear_marked"} /\ wk'[w].pc # wk[w].pc) =>
              fwdBits'[wk[w].obj] = "NOT"]_vars

\* A collection begins after an earlier one forwarded an object: the
\* forwarding bits of that object are clear again.
C29_Witness ==
    /\ stage = "Prepare"
    /\ gcCount >= 2
    /\ \A a \in Addrs : fwdBits[a] = "NOT"
    /\ \E a \in Addrs : fwdPtr[a] # NoAddr

(***************************************************************************)
(* What process_slot does to the slots                                      *)
(***************************************************************************)
\* The slots of the running ProcessEdges packet of worker w that hold a
\* reference and have been processed.
ProcessedSlots(w) ==
    {j \in 1 .. (pkt[w].i - 1) : SlotLoad(pkt[w].slots[j]) # NoAddr}

\* The call of trace_object that process_slot made for the j-th slot of the
\* packet: the worker runs its calls one after the other.
CallForSlot(w, j) ==
    done[w][Len(done[w]) + 1 - Cardinality({k \in ProcessedSlots(w) : k >= j})]

\* The worker processes a slot that holds no reference.
SkipsEmptySlot(w) ==
    /\ pkt[w].type = "PE" /\ wk[w].pc = "idle" /\ pkt[w].i <= Len(pkt[w].slots)
    /\ SlotLoad(pkt[w].slots[pkt[w].i]) = NoAddr
    /\ pkt'[w] # pkt[w]

\* trace_object has returned to process_slot, which finishes in this step.
FinishesSlot(w) == pkt[w].type = "PE" /\ wk[w].pc = "ret" /\ wk'[w].pc = "idle"

\* What the slot holds after the step.
SlotLoadAfter(slot) == IF slot.root THEN rootSlot'[slot.at] ELSE field'[slot.at]

\* The slots that hold another reference after the step.
ChangedSlots ==
    {RootSlotAt(r) : r \in {x \in RootIds : rootSlot'[x] # rootSlot[x]}}
      \cup {FieldSlotOf(o) : o \in {x \in Addrs : field'[x] # field[x]}}

\* C30: process_slot leaves every slot as it is when its slot holds no
\* reference, when the kind of the trace is not DEFRAG, or when trace_object
\* returned the reference it was given; otherwise it stores the returned
\* reference into its slot and changes no other.  So each slot that a
\* ProcessEdges packet has processed holds what trace_object returned for
\* the slot's old value if the kind is DEFRAG, and its old value otherwise.
C30_ProcessSlotStoresReturnedReference ==
    /\ [][\A w \in Workers :
            /\ SkipsEmptySlot(w) => (ChangedSlots = {} /\ wk' = wk)
            /\ FinishesSlot(w) =>
                 ChangedSlots = IF KindOf(pkt[w].pe) = TRACE_KIND_DEFRAG /\ wk[w].ret # wk[w].obj
                                THEN {pkt[w].slots[pkt[w].i]} ELSE {}
            /\ FinishesSlot(w) =>
                 SlotLoadAfter(pkt[w].slots[pkt[w].i]) =
                   IF KindOf(pkt[w].pe) = TRACE_KIND_DEFRAG THEN wk[w].ret ELSE wk[w].obj]_vars
    /\ [](\A w \in Workers :
            pkt[w].type = "PE" =>
              \A j \in ProcessedSlots(w) :
                /\ CallForSlot(w, j).entry = "trace_object"
                /\ CallForSlot(w, j).kind = KindOf(pkt[w].pe)
                /\ SlotLoad(pkt[w].slots[j]) =
                     IF KindOf(pkt[w].pe) = TRACE_KIND_DEFRAG THEN CallForSlot(w, j).ret
                     ELSE CallForSlot(w, j).obj)

\* A DEFRAG ProcessEdges packet has processed all its slots, and one of them
\* holds the address of the copy that trace_object returned for it.
C30_Witness ==
    \E w \in Workers :
      /\ pkt[w].type = "PE" /\ KindOf(pkt[w].pe) = TRACE_KIND_DEFRAG
      /\ pkt[w].i > Len(pkt[w].slots)
      /\ \E j \in ProcessedSlots(w) :
           /\ CallForSlot(w, j).ret # CallForSlot(w, j).obj
           /\ SlotLoad(pkt[w].slots[j]) = CallForSlot(w, j).ret

(***************************************************************************)
(* C31: a ProcessEdges packet hands its nodes to one inline scan            *)
(***************************************************************************)
SeqRange(seq) == {seq[i] : i \in 1 .. Len(seq)}

\* The packets a step adds to the buckets.
NewPackets == UNION {buckets'[st] \ buckets[st] : st \in Stages}

\* Worker w ends the do_work of a ProcessEdges packet.
FinishesProcessEdges(w) == pkt[w].type = "PE" /\ pkt'[w].type # "PE"

\* The nodes of worker w were popped and given to a scan that the worker
\* runs itself: each is scanned in this step or postponed to the tracer of
\* that scan, and no scan packet is added to a bucket; with no node,
\* nothing is created.
HandedToInlineScan(w) ==
    /\ nodes'[w] = <<>>
    /\ \A p \in NewPackets : p.type = "PE" /\ p.bucket = pkt[w].bucket
    /\ IF nodes[w] = <<>>
       THEN NewPackets = {} /\ scanned' = scanned /\ pkt'[w] = NoPacket
       ELSE \A o \in Addrs :
              IF o \notin SeqRange(nodes[w]) THEN scanned'[o] = scanned[o]
              ELSE IF SupportSlotEnqueuing(o) THEN scanned'[o] = scanned[o] + 1
              ELSE /\ scanned'[o] = scanned[o]
                   /\ pkt'[w].type = "SO"
                   /\ pkt'[w].objs = nodes[w]
                   /\ o \in SeqRange(pkt'[w].scan_later)

\* The node buffer of a running tracer holds at most CAPACITY nodes, and
\* fewer between two of its trace_object calls.
TracerBufferBounded ==
    \A w \in Workers :
      (pkt[w].type = "SO") =>
        /\ Len(nodes[w]) <= CAPACITY
        /\ (wk[w].pc = "idle") => Len(nodes[w]) < CAPACITY

\* No object is scanned twice, and when the trace has ended every object
\* that was enqueued, and no other, was scanned.
EnqueuedNodesScannedOnce ==
    /\ \A o \in Addrs : scanned[o] <= 1
    /\ (stage = "Final") =>
         \A o \in Addrs : scanned[o] = (IF mark[o] = MARKED_STATE THEN 1 ELSE 0)

ScanStep(w) ==
    /\ pkt[w].type = "SO"
    /\ pkt'[w] # pkt[w] \/ wk'[w] # wk[w] \/ nodes'[w] # nodes[w]

\* The step scans the objects of S and calls post_scan_object on them, once
\* each, and on no other object.
ScansExactly(S) ==
    \A o \in Addrs :
      /\ scanned'[o] = scanned[o] + (IF o \in S THEN 1 ELSE 0)
      /\ postScanned'[o] = postScanned[o] + (IF o \in S THEN 1 ELSE 0)

\* What a step of a scan packet does: its first step scans the objects
\* that support slot-enqueuing and postpones the others; each step of the
\* tracer that moves on scans the postponed object it was at; the packet
\* ends only after the last postponed object, leaving every queued node in
\* a scan packet; and the packets it adds go to its own bucket.
ScanStepScansNextObjects(w) ==
    LET p == pkt[w]
        now == {o \in SeqRange(p.objs) : SupportSlotEnqueuing(o)}
    IN /\ \A q \in NewPackets : q.bucket = p.bucket /\ q \in buckets'[p.bucket]
       /\ IF p.scan_later = <<>>
          THEN /\ ScansExactly(now)
               /\ IF now = SeqRange(p.objs) THEN pkt'[w] = NoPacket
                  ELSE /\ pkt'[w].type = "SO"
                       /\ pkt'[w].i = 1
                       /\ SeqRange(pkt'[w].scan_later) = SeqRange(p.objs) \ now
                       /\ Len(pkt'[w].scan_later) = Cardinality(SeqRange(p.objs) \ now)
          ELSE IF pkt'[w].type = "none"
          THEN /\ p.i > Len(p.scan_later)
               /\ ScansExactly({})
               /\ nodes'[w] = <<>>
               /\ IF nodes[w] = <<>> THEN NewPackets = {}
                  ELSE \E q \in NewPackets : q.type = "SO" /\ q.objs = nodes[w]
          ELSE IF pkt'[w] # p
          THEN /\ pkt'[w] = [p EXCEPT !.i = @ + 1]
               /\ p.i <= Len(p.scan_later)
               /\ ScansExactly({p.scan_later[p.i]})
          ELSE ScansExactly({})

\* C32: a ScanObjects packet scans every object of its buffer exactly once,
\* by slot-enqueuing if the VM supports it for the object and through the
\* tracer otherwise, calls post_scan_object once per object with its scan,
\* leaves no traced node unflushed in the tracer when it ends, and adds
\* the work it creates to its own bucket.
C32_ScanPacketScansBufferOnce ==
    /\ [][\A w \in Workers : ScanStep(w) => ScanStepScansNextObjects(w)]_vars
    /\ [](\A o \in Addrs : scanned[o] <= 1 /\ postScanned[o] = scanned[o])

\* Both stack objects were scanned through one tracer, which flushed the
\* two objects they refer to as one full buffer; the packet has ended.
C32_Witness ==
    /\ StackObjs \subseteq vmRoots.node_scan
    /\ \A o \in StackObjs : scanned[o] = 1 /\ postScanned[o] = 1
    /\ \E q \in buckets["Closure"] :
         /\ q.type = "SO"
         /\ Len(q.objs) = CAPACITY
         /\ SeqRange(q.objs) = {ChildOf(o) : o \in StackObjs}
    /\ \A w \in Workers : pkt[w].type = "none"

(***************************************************************************)
(* C33: concurrent ProcessRootNode packets scan each root once              *)
(***************************************************************************)
\* Worker w ends the do_work of a ProcessRootNode packet.
FinishesRootNode(w) == pkt[w].type = "PRN" /\ pkt'[w].type = "none"

\* The trace_object calls worker w made for the roots of the packet it
\* executes: the last calls of its history, one for each root.
OwnRootCalls(w) ==
    LET n == Len(done[w])
    IN {done[w][k] : k \in (n - Len(pkt[w].objs) + 1) .. n}

\* The roots the trace of worker w's packet visited for the first time:
\* those whose attempt_mark succeeded in one of its calls.
FirstVisitedRoots(w) == {c.obj : c \in {d \in OwnRootCalls(w) : d.am}}

\* C33: ProcessRootNode hands to its scan packet exactly the roots that its
\* own trace visited for the first time, so that a root another packet
\* marked, or that is listed again, is not scanned again: however the
\* ProcessRootNode packets interleave, no root is scanned twice and every
\* root has been scanned once when the trace ends.
C33_EachRootScannedOnce ==
    /\ [][\A w \in Workers :
            FinishesRootNode(w) =>
              \E q \in buckets'[pkt[w].bucket] :
                /\ NewPackets \subseteq {q}
                /\ q.type = "SO"
                /\ q.pe = pkt[w].pe
                /\ SeqRange(q.objs) = FirstVisitedRoots(w)
                /\ Len(q.objs) = Cardinality(FirstVisitedRoots(w))]_vars
    /\ [](\A o \in vmRoots.pinning :
            /\ scanned[o] <= 1
            /\ (stage = "Final") => scanned[o] = 1)

\* Two ProcessRootNode packets that list the same two roots, the second
\* packet one of them twice, ran at the same time: each visited one of the
\* roots first and handed only that one to its scan packet.
C33_Witness ==
    /\ \E q \in buckets["Closure"] : q.type = "SO" /\ q.objs = <<BlockStart(0)>>
    /\ \E q \in buckets["Closure"] : q.type = "SO" /\ q.objs = <<BlockStart(1)>>
    /\ \E w \in Workers : Len(done[w]) = 2
    /\ \E w \in Workers : Len(done[w]) = 3
    /\ stage = "PinningRootsTrace"

(***************************************************************************)
(* Weak reference processing by the VM                                      *)
(***************************************************************************)
\* Worker w calls the VM's process_weak_refs in this step.
CallsProcessWeakRefs(w) ==
    pkt[w].type = "VMProcessWeakRefs" /\ pkt[w].i = 1 /\ pkt'[w].i = 2

\* Worker w ends a VMProcessWeakRefs packet in this step.
EndsWeakRefs(w) == pkt[w].type = "VMProcessWeakRefs" /\ pkt'[w].type = "none"

\* Nothing is left to trace when worker w calls process_weak_refs: no other
\* worker runs a packet, the VMRefClosure bucket is empty, and every marked
\* object was scanned and refers to a marked object or to none.
TransitiveClosureComplete(w) ==
    /\ buckets["VMRefClosure"] = {}
    /\ \A v \in Workers \ {w} : pkt[v].type = "none"
    /\ \A o \in Addrs :
         mark[o] = MARKED_STATE =>
           /\ scanned[o] = 1
           /\ field[o] # NoAddr => mark[field[o]] = MARKED_STATE

\* C34: VMProcessWeakRefs leaves a new instance of itself as the sentinel of
\* the VMRefClosure bucket exactly when process_weak_refs returned
\* need_to_repeat; each call of process_weak_refs is made when the closure of
\* what the earlier rounds retained is complete; no round follows a round
\* that returned false, and a round that returned true is followed by
\* another call.
C34_WeakRefsRepeatWhileAsked ==
    /\ [][\A w \in Workers :
            EndsWeakRefs(w) =>
              /\ Len(weakRounds') = Len(weakRounds) + 1
              /\ (sentinel' = WeakRefsPacket) <=> weakRounds'[Len(weakRounds')]]_vars
    /\ [][\A w \in Workers : CallsProcessWeakRefs(w) => TransitiveClosureComplete(w)]_vars
    /\ [](\A n \in 1 .. (Len(weakRounds) - 1) : weakRounds[n])
    /\ \A n \in 1 .. (MaxRounds - 1) :
         (Len(weakRounds) = n /\ weakRounds[n]) ~> (Len(weakRounds) = n + 1)

\* Two rounds asked for a repetition and the third did not; the VM retained
\* the stack object of block 1, whose closure marked the object it refers
\* to, and the collection went on to its last stage.
C34_Witness ==
    /\ weakRounds = <<TRUE, TRUE, FALSE>>
    /\ sentinel = NoPacket
    /\ mark[ChildOf(BlockStart(1))] = MARKED_STATE
    /\ mark[BlockStart(0)] = UNMARKED_STATE
    /\ stage = "Final"

(***************************************************************************)
(* The GC status at the start of a collection                               *)
(***************************************************************************)
\* Worker w ends a ScanMutatorRoots packet in this step.
ScansMutatorRoots(w) == pkt[w].type = "ScanMutatorRoots" /\ pkt'[w].type = "none"

\* The mutators were stopped, and their ScanMutatorRoots packets made.
MutatorsStopped == stage \notin {"Mutator", "Unconstrained"}

\* The stopped mutators whose ScanMutatorRoots packet has not ended.
UnscannedMutators ==
    {p.mutator : p \in {q \in buckets["Prepare"] \cup {pkt[w] : w \in Workers} :
                          q.type = "ScanMutatorRoots"}}

\* Some work packet was scheduled or is being executed.
WorkScheduled ==
    \/ \E st \in Stages : buckets[st] # {}
    \/ \E w \in Workers : pkt[w].type # "none"

\* C35: ScheduleCollection leaves the status GcPrepare, and no work packet of
\* the collection exists before; whatever the order in which the
\* ScanMutatorRoots packets run, the status is GcPrepare until the packet that
\* ends the scan of the last stopped mutator sets it to GcProper, no other
\* step sets it, GcProper means that every mutator was stopped and scanned,
\* and GcProper is reached.
C35_StatusFollowsStackScanning ==
    /\ [][(stage = "Mutator" /\ stage' # "Mutator") => gc_status' = "GcPrepare"]_vars
    /\ [](WorkScheduled => gc_status # "NotInGC")
    /\ [][(gc_status' # gc_status /\ gc_status' = "GcProper") =>
            \E w \in Workers : ScansMutatorRoots(w)]_vars
    /\ [][\A w \in Workers :
            ScansMutatorRoots(w) =>
              /\ gc_status = "GcPrepare"
              /\ (gc_status' = "GcProper") <=> (UnscannedMutators' = {})]_vars
    /\ [](gc_status = "GcProper" =>
            /\ MutatorsStopped
            /\ UnscannedMutators = {}
            /\ scanned_stacks = NumberOfMutators)
    /\ (gc_status = "GcPrepare") ~> (gc_status = "GcProper")

\* The three stacks were scanned and the status is GcProper while a
\* PrepareBlockState packet of the same stage is still being executed; the
\* roots of the first mutator wait in the Closure bucket.
C35_Witness ==
    /\ gc_status = "GcProper"
    /\ scanned_stacks = 3
    /\ \E w \in Workers : pkt[w].type = "PrepareBlockState"
    /\ \E q \in buckets["Closure"] : q.type = "PE" /\ q.roots

(***************************************************************************)
(* The defrag decision across collections, and spaces that never move       *)
(* objects                                                                  *)
(***************************************************************************)
\* The plan calls end_of_gc in this step.
EndsGC == stage = "Final" /\ stage' = "Mutator"

\* C36: end_of_gc returns the decision that decide_whether_to_defrag recorded
\* for the collection, which chose the trace kind of the collection and was
\* not changed during it; in a space with defragmentation enabled end_of_gc
\* resets the decision, so that in_defrag() is false while the mutators run,
\* and in a space with defragmentation disabled it leaves the flag alone;
\* is_last_gc_exhaustive returns its argument in the former and true in
\* the latter.
C36_EndOfGCReportsAndResetsDefrag ==
    /\ [][EndsGC =>
            /\ DidDefrag = (dpeKind = TRACE_KIND_DEFRAG)
            /\ IsDefragEnabled => ~in_defrag'
            /\ ~IsDefragEnabled => in_defrag' = in_defrag]_vars
    /\ [][(stage # "Mutator" /\ ~EndsGC) => in_defrag' = in_defrag]_vars
    /\ []((IsDefragEnabled /\ stage = "Mutator") => ~in_defrag)
    /\ [](\A d \in BOOLEAN : IsLastGCExhaustive(d) = (never_move_objects \/ d))

\* A defrag collection of a space that moves objects has ended: end_of_gc
\* returned true and in_defrag() is false again.
C36_Witness ==
    /\ ~never_move_objects
    /\ stage = "Mutator"
    /\ gcCount > 0
    /\ dpeKind = TRACE_KIND_DEFRAG
    /\ ~in_defrag
    /\ ~IsLastGCExhaustive(in_defrag)

\* C37: in a space created with never_move_objects no block is a defrag
\* source, whatever prepare has run, so trace_object dispatches no object to
\* the opportunistic copy under any trace kind: no call copies or forwards an
\* object, and every call that returned, returned its argument.
C37_NeverMoveNeverCopies ==
    never_move_objects =>
      /\ \A b \in Blocks : ~defragSource[b]
      /\ ~in_defrag
      /\ \A object \in Addrs : \A kind \in TraceKinds : ~DispatchesToCopy(object, kind)
      /\ \A a \in Addrs : copies[a] = 0 /\ fwdBits[a] = "NOT"
      /\ \A w \in Workers :
           /\ wk[w].fn # "twoc"
           /\ wk[w].pc = "ret" => wk[w].ret = wk[w].obj

\* In the second collection of a space that never moves objects, a major
\* one whose prepare visited a block with a hole, trace_object returned an
\* object of that block in place.
C37_Witness ==
    /\ never_move_objects
    /\ gcCount = 2
    /\ ~nurseryGC
    /\ \E w \in Workers :
         /\ wk[w].pc = "ret"
         /\ wk[w].entry = "trace_object"
         /\ wk[w].ret = wk[w].obj
         /\ holes[BlockOf(wk[w].obj)] > 0

(***************************************************************************)
(* C38: the blocks get_reusable_block finds in the pool.                    *)
(***************************************************************************)
\* The blocks the call of this step popped: the ones it skipped and the one
\* it returned.
PoppedBlocks == reusable_blocks \ reusable_blocks'

\* C38 (as amended): every block that get_reusable_block pops and does not
\* skip is in state Reusable or Unmarked, so the unexpected-block-state panic
\* is unreachable in any sequence of prepare, trace, sweep, release and
\* allocation.  No block of the pool is ever Unallocated, and a block of the
\* pool is Marked only while it is a defrag source of a defrag collection
\* that has not released yet: a copy allocator that pops it skips it, and no
\* mutator pops it.
C38_ReturnedBlockIsReusableOrUnmarked ==
    /\ []("unreachable_block_state" \notin failed)
    /\ [](\A b \in reusable_blocks :
            /\ blockState[b] # Unallocated
            /\ blockState[b] = Marked => defragSource[b] /\ in_defrag /\ stage # "Mutator")
    /\ [][ReusableBlockStep =>
            /\ \A b \in PoppedBlocks \ lastAlloc'.skipped :
                 b = lastAlloc'.block /\ blockState[b].tag \in {"Reusable", "Unmarked"}
            /\ \A b \in lastAlloc'.skipped : lastAlloc'.copy /\ defragSource[b]]_vars

\* In a defrag collection a copy allocator popped a defrag source that a
\* trace had marked in place, skipped it, and was given an Unmarked block.
C38_Witness ==
    /\ lastAlloc.fn = "get_reusable_block"
    /\ lastAlloc.copy
    /\ lastAlloc.block # NoAddr
    /\ lastAlloc.before = Unmarked
    /\ \E b \in lastAlloc.skipped : blockState[b] = Marked
    /\ "unreachable_block_state" \notin failed

\* C38 as stated: no block of the pool is Marked or Unallocated at the
\* moment get_reusable_block pops it, the blocks it skips included.
C38_NoPoppedBlockIsMarked ==
    [][ReusableBlockStep =>
         \A b \in PoppedBlocks : blockState[b].tag \in {"Reusable", "Unmarked"}]_vars

(***************************************************************************)
(* C39: the forwarding state of an object between the calls that trace it.  *)
(***************************************************************************)
\* The workers that are inside a call of trace_object_with_opportunistic_copy
\* on object o that has not returned.
InFlight(o) ==
    {w \in Workers : wk[w].fn = "twoc" /\ wk[w].obj = o /\ wk[w].pc \notin {"idle", "ret"}}

\* C39: no object is left in the BEING_FORWARDED state.  While an object is
\* BEING_FORWARDED, a call that won the forwarding race on it has not
\* returned; once every call of trace_object_with_opportunistic_copy on an
\* object has returned, its forwarding state is FORWARDED if it was copied
\* and NOT_FORWARDED otherwise, after the already-marked path and after the
\* pinned/exhausted path alike.
C39_NoObjectLeftBeingForwarded ==
    \A o \in Addrs :
      /\ fwdBits[o] = "BEING" => \E w \in InFlight(o) : wk[w].won
      /\ InFlight(o) = {} =>
           fwdBits[o] = (IF copies[o] > 0 THEN "FORWARDED" ELSE "NOT")

\* Every call has returned: one winner found its object already marked, one
\* marked its object in place, one copied its object; the first two objects
\* are NOT_FORWARDED and the third is FORWARDED.
C39_Witness ==
    /\ \A o \in Addrs : InFlight(o) = {}
    /\ \E c, d, e \in Returned :
         /\ c.fn = "twoc" /\ c.won /\ ~c.inplace /\ ~c.copied /\ fwdBits[c.obj] = "NOT"
         /\ d.fn = "twoc" /\ d.won /\ d.inplace /\ fwdBits[d.obj] = "NOT"
         /\ e.fn = "twoc" /\ e.won /\ e.copied /\ fwdBits[e.obj] = "FORWARDED"

(***************************************************************************)
(* C40: the chunk map and the packets generated from it.                    *)
(***************************************************************************)
\* The blocks whose state is not Unallocated.
AllocatedBlocks == {b \in Blocks : blockState[b] # Unallocated}

\* The packets of the given type that the step leaves in the bucket for the
\* chunk of block b.
PacketsFor(type, bucket, b) ==
    {q \in buckets'[bucket] : q.type = type /\ q.chunk = ChunkOf(b)}

\* C40 (as amended): every block whose state is not Unallocated lies in a
\* chunk that the chunk map holds as allocated, at the start of every
\* prepare and every release in particular.  The prepare of a major
\* collection generates exactly one PrepareBlockState packet, and every
\* release exactly one SweepChunk packet, for the chunk of each such block;
\* no block is allocated or released before those packets run, and the
\* packet visits every such block of its chunk.  The prepare of a nursery
\* collection generates no PrepareBlockState packet.  SweepChunk finds its chunk allocated, so its assertion never
\* fails, and marks the chunk free exactly when none of its blocks survived
\* the sweep.
C40_AllocatedBlocksLieInAllocatedChunks ==
    /\ [](\A b \in AllocatedBlocks : chunkAllocated[ChunkOf(b)])
    /\ []("sweep_unallocated_chunk" \notin failed)
    /\ [][PrepareStep =>
            \A b \in AllocatedBlocks :
              Cardinality(PacketsFor("PrepareBlockState", "Prepare", b))
                = (IF nurseryGC THEN 0 ELSE 1)]_vars
    /\ [][ReleaseStep =>
            \A b \in AllocatedBlocks :
              Cardinality(PacketsFor("SweepChunk", "Release", b)) = 1]_vars
    /\ [][(stage = "Prepare" \/ stage = "Release") /\ ~SweepStep =>
            AllocatedBlocks' = AllocatedBlocks]_vars
    /\ [][\A w \in Workers :
            pkt[w].type = "PrepareBlockState" /\ pkt'[w].type = "none" =>
              \A b \in ChunkBlocks(pkt[w].chunk) \cap AllocatedBlocks :
                blockState'[b] = Unmarked]_vars
    /\ [][\A w \in Workers :
            Sweeps(w) =>
              LET chunk == pkt[w].chunk IN
                /\ chunkAllocated[chunk]
                /\ \A b \in ChunkBlocks(chunk) \cap AllocatedBlocks :
                     blockState'[b] = SweepState(b)
                /\ chunkAllocated'[chunk] = (ChunkBlocks(chunk) \cap AllocatedBlocks' # {})]_vars

\* The release of a major collection generated a SweepChunk packet for each
\* of two chunks.  One has finished and left its chunk allocated, as a
\* block of it survived.  The other has just swept its chunk, in which no
\* block survived, and marked it free.
C40_Witness ==
    /\ ~nurseryGC
    /\ stage = "Release"
    /\ epilogueCounter = 1
    /\ "sweep_unallocated_chunk" \notin failed
    /\ \E w \in Workers :
         /\ pkt[w].type = "SweepChunk" /\ pkt[w].i = 2
         /\ ~chunkAllocated[pkt[w].chunk]
         /\ ChunkBlocks(pkt[w].chunk) \cap AllocatedBlocks = {}
         /\ \E c \in Chunks \ {pkt[w].chunk} :
              /\ chunkAllocated[c]
              /\ ChunkBlocks(c) \cap AllocatedBlocks # {}
              /\ \A q \in buckets["Release"] : q.type # "SweepChunk"
              /\ \A v \in Workers \ {w} : pkt[v].type # "SweepChunk"

\* C40 as stated: every prepare, that of a nursery collection too, generates
\* one PrepareBlockState packet for the chunk of each block that is not
\* Unallocated.
C40_EveryPrepareVisitsAllocatedBlocks ==
    [][PrepareStep =>
         \A b \in AllocatedBlocks :
           Cardinality(PacketsFor("PrepareBlockState", "Prepare", b)) = 1]_vars

====
